---- MODULE Spec2Model ----
(***************************************************************************)
(* Verification model of ngs/tides-api: the prediction orchestrator        *)
(* (internal/usecase/predict.go), the harmonic series generator and the    *)
(* extrema detector/refiner (internal/domain/tide.go) and the FES location *)
(* sampler (internal/adapter/store/fes/netcdf.go).                         *)
(*                                                                         *)
(* Conventions of the model                                                *)
(*  - time.Time and time.Duration are counted in whole seconds (Second is  *)
(*    the unit); Go's float64 -> Duration conversion truncates toward 0.   *)
(*  - float64 values are exact rationals <<n, d>> in lowest terms, d > 0;  *)
(*    floating-point rounding error is not modelled.                       *)
(*  - the harmonic sum  SUM f*A*cos(theta)  of CalculateTideHeight cannot  *)
(*    be evaluated (no cosine); each constituent carries a tabulated       *)
(*    periodic wave Wave[k] that stands for f*A*cos(theta) at the k-th     *)
(*    WaveStep after the reference time.  The tables are inputs, so every  *)
(*    property is checked for every table of the bounded set.              *)
(***************************************************************************)
EXTENDS Integers, Sequences, FiniteSets, TLC

VARIABLES
    execReq,    \* the request last handed to Execute 
    execEnv,    \* what the collaborators answered during that call
    execOut,    \* what Execute returned: [err, resp, calls, params]
    genIn,      \* GeneratePredictions: the request whose Start, End, Interval it is called with
    genT,       \* GeneratePredictions: the loop variable t
    genN,       \* GeneratePredictions: len(predictions)
    genLast,    \* GeneratePredictions: predictions[len(predictions)-1] (NULL while empty)
    genPc,      \* GeneratePredictions: "loop" while iterating, "done" after return
    exSeries,   \* extrema unit: the input series
    exFound,    \* extrema unit: result of FindExtrema (NULL before the call)
    exRefined,  \* extrema unit: result of RefineExtrema (NULL before the call)
    fesDir,     \* FES store: the data directory (constituent name -> file or NoFile)
    fesQuery,   \* FES store: the last LoadForLocation query (NULL before the call)
    fesOut,     \* FES store: what LoadForLocation returned
    fesCache,   \* FES store: Store.cache, constituent name -> full grids
    itpGrid,    \* interp unit: the Grid2D handed to InterpolateAt
    itpCell,    \* interp unit: the GridCell handed to BilinearInterpolate
    itpQuery,   \* interp unit: the point <<x, y>>
    itpCellOut, \* interp unit: what BilinearInterpolate returned (NULL before the call)
    itpOut,     \* interp unit: what Grid2D.InterpolateAt returned (NULL before the call)
    rfIn,       \* refine unit: <<before, peak, after>> handed to RefineExtremum
    rfOut,      \* refine unit: <<time, height>> returned (NULL before the call)
    bathCfg,    \* bathymetry LocalStore: [gebcoPath, mssPath, geoidStore], fixed at construction
    mslGrid,    \* LocalStore.mslGrid (NULL is nil)
    mslBounds,  \* LocalStore.mslBounds (NULL is nil)
    depthGrid,  \* LocalStore.depthGrid (NULL is nil)
    depthBounds,\* LocalStore.depthBounds (NULL is nil)
    mu,         \* LocalStore.mu: [writer, readers]
    bathCalls,  \* the GetMetadata call of each goroutine: [pc, lat, lon, grid, out, ...]
    geoidPath,  \* geoid Store.geoidPath: the geoid file
    geoidGrid,  \* geoid Store.grid (NULL is nil)
    geoQuery,   \* geoid Store: the last direct GetGeoidHeight query (NULL before the first)
    geoOut,     \* geoid Store: what that call returned
    nodIn,      \* nodal unit: [coeffs, args] of the correction GetFactors is called on
    nodOut,     \* nodal unit: [constituent, rule, f, u] of the last GetFactors call
    ovIn,       \* override unit: [table, constituents, msl] handed to applyStationOverride
    ovOut,      \* override unit: [adjusted, caller, msl] after the call (NULL before)
    cellIn,     \* FES cell unit: [lats, lons, values, lat, lon] of one point query
    cellOut,    \* FES cell unit: [latIdx, lonIdx, windowed, full] (NULL before the call)
    datumImpl,  \* which getAutoDatumOffset the build holds: "flag" or "once"
    datumOnce,  \* datumOnce: "new", "running" or "done"
    datumOffsetsLoaded, \* the flag datumOffsetsLoaded
    datumOffsetTable,   \* the table (datumOffsetTable / datumTable); NULL is nil
    datumCalls, \* the getAutoDatumOffset call of each request: [pc, seen]
    datumLog,   \* [inits, changed, torn]: what happened to the table so far
    rdIn,       \* rounding unit: the value handed to roundToDecimal
    rdOut       \* rounding unit: what roundToDecimal returned (NULL before the call)

execVars == <<execReq, execEnv, execOut>>
genVars  == <<genIn, genT, genN, genLast, genPc>>
exVars   == <<exSeries, exFound, exRefined>>
fesVars  == <<fesDir, fesQuery, fesOut, fesCache>>
itpVars  == <<itpGrid, itpCell, itpQuery, itpCellOut, itpOut>>
rfVars   == <<rfIn, rfOut>>
bathVars == <<bathCfg, mslGrid, mslBounds, depthGrid, depthBounds, mu, bathCalls>>
geoVars  == <<geoidPath, geoidGrid, geoQuery, geoOut>>
nodVars  == <<nodIn, nodOut>>
ovVars   == <<ovIn, ovOut>>
cellVars == <<cellIn, cellOut>>
datumVars == <<datumImpl, datumOnce, datumOffsetsLoaded, datumOffsetTable, datumCalls, datumLog>>
rdVars   == <<rdIn, rdOut>>
lateVars == <<nodVars, ovVars, cellVars, datumVars, rdVars>>
earlyVars == <<execVars, genVars, exVars, fesVars, itpVars, rfVars, bathVars, geoVars>>
otherVars == <<itpVars, rfVars, bathVars, geoVars, lateVars>>
vars     == <<execReq, execEnv, execOut, genIn, genT, genN, genLast, genPc,
              exSeries, exFound, exRefined, fesDir, fesQuery, fesOut, fesCache,
              itpGrid, itpCell, itpQuery, itpCellOut, itpOut, rfIn, rfOut,
              bathCfg, mslGrid, mslBounds, depthGrid, depthBounds, mu, bathCalls,
              geoidPath, geoidGrid, geoQuery, geoOut, nodIn, nodOut,
              ovIn, ovOut, cellIn, cellOut, datumImpl, datumOnce, datumOffsetsLoaded,
              datumOffsetTable, datumCalls, datumLog, rdIn, rdOut>>

NULL    == <<>>      \* a nil pointer / absent optional / not yet computed
Some(v) == <<v>>     \* a non-nil pointer to a scalar
Val(p)  == p[1]      \* dereference
NoErr   == "ok"      \* a nil error

(***************************************************************************)
(* Exact rational arithmetic standing for float64.                         *)
(***************************************************************************)
Abs(x) == IF x < 0 THEN -x ELSE x

RECURSIVE GCD(_, _)
GCD(a, b) == IF b = 0 THEN a ELSE GCD(b, a % b)

\* n/d in lowest terms with a positive denominator (d # 0).
Rat(n, d) ==
    LET g == GCD(Abs(n), Abs(d))
        s == IF d < 0 THEN -1 ELSE 1
    IN  <<(s * n) \div g, (s * d) \div g>>

R(n)       == <<n, 1>>
\* Sums over the least common denominator and products after cross-cancelling,
\* so that intermediate values stay as small as the result allows.
RAdd(a, b) ==
    LET g == GCD(a[2], b[2])
    IN  Rat(a[1] * (b[2] \div g) + b[1] * (a[2] \div g), (a[2] \div g) * b[2])
RMul(a, b) ==
    LET g1 == GCD(Abs(a[1]), b[2])
        g2 == GCD(Abs(b[1]), a[2])
    IN  Rat((a[1] \div g1) * (b[1] \div g2), (a[2] \div g2) * (b[2] \div g1))
RNeg(a)    == <<-a[1], a[2]>>
RSub(a, b) == RAdd(a, RNeg(b))
\* a / b for b # 0.
RDiv(a, b) == RMul(a, IF b[1] < 0 THEN <<-b[2], -b[1]>> ELSE <<b[2], b[1]>>)
RAbs(a)    == <<Abs(a[1]), a[2]>>
RLess(a, b) == a[1] * b[2] < b[1] * a[2]
RLeq(a, b)  == a[1] * b[2] <= b[1] * a[2]
\* Go's float64 -> int conversion: truncation toward zero.
RTrunc(a)  == IF a[1] >= 0 THEN a[1] \div a[2] ELSE -((-a[1]) \div a[2])

(***************************************************************************)
(* Time units (package time).                                              *)
(***************************************************************************)
Second == 1
Minute == 60 * Second
Hour   == 60 * Minute

\* time.Duration.Hours(): a duration as a float64 number of hours.
Hours(d) == Rat(d, Hour)

(***************************************************************************)
(* internal/domain/tide.go                                                 *)
(***************************************************************************)
WaveStep == Minute   \* spacing of the tabulated wave samples

\* Index into a constituent's wave table for a time offset in hours.
WaveIndex(wave, deltaHours) ==
    LET secs == RTrunc(RMul(deltaHours, R(Hour)))   \* exact: offsets are whole seconds
    IN  ((secs \div WaveStep) % Len(wave)) + 1

RECURSIVE SumContributions(_, _, _)
SumContributions(cs, deltaHours, height) ==
    IF cs = <<>> THEN height
    ELSE LET c == Head(cs)
             contribution == R(c.Wave[WaveIndex(c.Wave, deltaHours)])   \* f * A * cos(phase)
         IN  SumContributions(Tail(cs), deltaHours, RAdd(height, contribution))

\* CalculateTideHeight: height := params.MSL; for each constituent height += contribution.
CalculateTideHeight(t, params) ==
    LET deltaHours == Hours(t - params.ReferenceTime)
    IN  SumContributions(params.Constituents, deltaHours, params.MSL)

\* Mutant of LoopContinues: the loop tests t.Before(end).
LoopContinues_Before(t, end) == t < end

\* The loop of GeneratePredictions: for t := start; !t.After(end); t = t.Add(interval).
LoopContinues(t, end) == ~(t > end)
LoopAdvance(t, interval) == t + interval

RECURSIVE GenerateLoop(_, _, _, _, _)
GenerateLoop(t, end, interval, params, predictions) ==
    IF LoopContinues(t, end)
    THEN GenerateLoop(LoopAdvance(t, interval), end, interval, params,
                      Append(predictions, [Time |-> t, HeightM |-> CalculateTideHeight(t, params)]))
    ELSE predictions

\* Terminates only for interval > 0 (or start after end).
GeneratePredictions(start, end, interval, params) ==
    GenerateLoop(start, end, interval, params, <<>>)

\* Mutant of IsPeak: a sample equal to its left neighbour passes.
IsPeak_Plateau(prev, curr, next) == RLeq(prev, curr) /\ RLess(next, curr)

\* curr > prev && curr > next: a local maximum (peak).
IsPeak(prev, curr, next) == RLess(prev, curr) /\ RLess(next, curr)

\* curr < prev && curr < next: a local minimum (trough).
IsTrough(prev, curr, next) == RLess(curr, prev) /\ RLess(curr, next)

\* FindExtrema; i is the source's 0-based index, predictions[i] is predictions[i + 1] here.
RECURSIVE FindLoop(_, _, _, _)
FindLoop(predictions, i, highs, lows) ==
    IF i < Len(predictions) - 1
    THEN LET prev == predictions[i].HeightM
             curr == predictions[i + 1].HeightM
             next == predictions[i + 2].HeightM
             highs2 == IF IsPeak(prev, curr, next)
                       THEN Append(highs, predictions[i + 1]) ELSE highs
             lows2  == IF IsTrough(prev, curr, next)
                       THEN Append(lows, predictions[i + 1]) ELSE lows
         IN  FindLoop(predictions, i + 1, highs2, lows2)
    ELSE [Highs |-> highs, Lows |-> lows]

\* Mutant of FindExtrema: the length guard is off by one.
FindExtrema_MinFour(predictions) ==
    IF Len(predictions) < 4
    THEN [Highs |-> <<>>, Lows |-> <<>>]
    ELSE FindLoop(predictions, 1, <<>>, <<>>)

FindExtrema(predictions) ==
    IF Len(predictions) < 3
    THEN [Highs |-> <<>>, Lows |-> <<>>]
    ELSE FindLoop(predictions, 1, <<>>, <<>>)

\* math.Abs(a) < 1e-10 for a rational a (1e10 exceeds TLC's 32-bit integers,
\* so |n|/d < 1/10^10 is evaluated as |n| * 10^5 <= (d - 1) \div 10^5).
NegligibleCurvature(a) ==
    \/ a[1] = 0
    \/ /\ Abs(a[1]) <= 21474
       /\ Abs(a[1]) * 100000 <= (a[2] - 1) \div 100000

\* RefineExtremum returns <<time, height>>.  Precondition of the division: dt1 # 0.
\* hour is the number of time units in an hour: Duration.Hours() divides by it
\* and time.Duration(dtVertex * float64(time.Hour)) multiplies by it.
\* Mutant of RefineExtremumAt: the vertex offset is not clamped to the interval.
RefineExtremumAt_NoClamp(hour, before, peak, after) ==
    LET dt1 == Rat(peak.Time - before.Time, hour)
        dt2 == Rat(after.Time - peak.Time, hour)
        h0  == before.HeightM
        h1  == peak.HeightM
        h2  == after.HeightM
        a   == RDiv(RAdd(RSub(h2, RMul(R(2), h1)), h0), RMul(R(2), RMul(dt1, dt1)))
        b   == RDiv(RSub(h2, h0), RMul(R(2), dt1))
        dtVertex == RDiv(RNeg(b), RMul(R(2), a))
        refinedTime   == peak.Time + RTrunc(RMul(dtVertex, R(hour)))
        refinedHeight == RAdd(RAdd(h1, RMul(b, dtVertex)), RMul(a, RMul(dtVertex, dtVertex)))
    IN  IF RLess(Rat(1, 1000000), RAbs(RSub(dt1, dt2)))
        THEN <<peak.Time, peak.HeightM>>
        ELSE IF NegligibleCurvature(a)
        THEN <<peak.Time, peak.HeightM>>
        ELSE <<refinedTime, refinedHeight>>

RefineExtremumAt(hour, before, peak, after) ==
    LET dt1 == Rat(peak.Time - before.Time, hour)
        dt2 == Rat(after.Time - peak.Time, hour)
        h0  == before.HeightM
        h1  == peak.HeightM
        h2  == after.HeightM
        a   == RDiv(RAdd(RSub(h2, RMul(R(2), h1)), h0), RMul(R(2), RMul(dt1, dt1)))
        b   == RDiv(RSub(h2, h0), RMul(R(2), dt1))
        dtVertex == RDiv(RNeg(b), RMul(R(2), a))
        refinedTime   == peak.Time + RTrunc(RMul(dtVertex, R(hour)))
        refinedHeight == RAdd(RAdd(h1, RMul(b, dtVertex)), RMul(a, RMul(dtVertex, dtVertex)))
    IN  IF RLess(Rat(1, 1000000), RAbs(RSub(dt1, dt2)))
        THEN <<peak.Time, peak.HeightM>>              \* non-uniform spacing
        ELSE IF NegligibleCurvature(a)
        THEN <<peak.Time, peak.HeightM>>              \* nearly linear
        ELSE IF RLess(dt1, RAbs(dtVertex))
        THEN <<peak.Time, peak.HeightM>>              \* vertex outside the interval
        ELSE <<refinedTime, refinedHeight>>

\* RefineExtremum on the whole-second clock of the prediction pipeline.
RefineExtremum(before, peak, after) == RefineExtremumAt(Hour, before, peak, after)

\* predMap[p.Time] = i for every i in order: the last index with that time wins.
PredMapHas(predictions, t) == \E i \in 1..Len(predictions) : predictions[i].Time = t
PredMapIdx(predictions, t) ==
    (CHOOSE i \in 1..Len(predictions) :
        /\ predictions[i].Time = t
        /\ \A j \in 1..Len(predictions) : predictions[j].Time = t => j <= i) - 1

RECURSIVE RefineList(_, _, _)
RefineList(predictions, list, refined) ==
    IF list = <<>> THEN refined
    ELSE LET e   == Head(list)
             ok  == PredMapHas(predictions, e.Time)
             idx == PredMapIdx(predictions, e.Time)
         IN  IF ~ok \/ idx < 1 \/ idx >= Len(predictions) - 1
             THEN RefineList(predictions, Tail(list), Append(refined, e))
             ELSE LET r == RefineExtremum(predictions[idx], predictions[idx + 1], predictions[idx + 2])
                  IN  RefineList(predictions, Tail(list),
                                 Append(refined, [Time |-> r[1], HeightM |-> r[2]]))

\* Mutant of TimeBefore: the comparator tests After.
TimeBefore_After(x, y) == x.Time > y.Time

\* The comparator handed to sort.Slice.
TimeBefore(x, y) == x.Time < y.Time

\* sort.Slice(list, TimeBefore).  sort.Slice is not stable; entries with equal
\* times cannot occur for series with strictly increasing times.
RECURSIVE InsertByTime(_, _)
InsertByTime(sorted, e) ==
    IF sorted = <<>> THEN <<e>>
    ELSE IF TimeBefore(e, Head(sorted)) THEN <<e>> \o sorted
    ELSE <<Head(sorted)>> \o InsertByTime(Tail(sorted), e)

RECURSIVE SortByTime(_)
SortByTime(list) ==
    IF list = <<>> THEN <<>>
    ELSE InsertByTime(SortByTime(SubSeq(list, 1, Len(list) - 1)), list[Len(list)])

RefineExtrema(predictions, extrema) ==
    IF Len(predictions) < 3
    THEN extrema
    ELSE [Highs |-> SortByTime(RefineList(predictions, extrema.Highs, <<>>)),
          Lows  |-> SortByTime(RefineList(predictions, extrema.Lows, <<>>))]

(***************************************************************************)
(* internal/usecase/predict.go                                             *)
(***************************************************************************)
sourceCSV == "csv"
sourceFES == "fes"

MaxIntervalHours == 6      \* r.Interval > 6*time.Hour
MaxRangeDays     == 365    \* duration > 365*24*time.Hour
MaxNumPoints     == 10000  \* numPoints > 10000

hasLatLon(r)    == r.Lat # NULL /\ r.Lon # NULL
hasStationID(r) == r.StationID # NULL /\ Val(r.StationID) # ""

\* Mutant of Validate: the upper interval limit is not checked.
Validate_NoIntervalMax(r) ==
    IF ~hasLatLon(r) /\ ~hasStationID(r) THEN "either lat/lon or station_id must be provided"
    ELSE IF hasLatLon(r) /\ hasStationID(r) THEN "lat/lon and station_id are mutually exclusive"
    ELSE IF hasLatLon(r) /\ (Val(r.Lat) < -90 \/ Val(r.Lat) > 90) THEN "latitude must be between -90 and 90"
    ELSE IF hasLatLon(r) /\ (Val(r.Lon) < -180 \/ Val(r.Lon) > 180) THEN "longitude must be between -180 and 180"
    ELSE IF ~(r.Start < r.End) THEN "start time must be before end time"
    ELSE IF r.Interval < Minute THEN "interval must be at least 1 minute"
    ELSE LET duration  == r.End - r.Start
             numPoints == duration \div r.Interval
         IN  IF duration > MaxRangeDays * 24 * Hour THEN "time range must be at most 365 days"
             ELSE IF numPoints > MaxNumPoints THEN "too many prediction points"
             ELSE NoErr

\* PredictionRequest.Validate: the error it returns, NoErr for nil.
Validate(r) ==
    IF ~hasLatLon(r) /\ ~hasStationID(r) THEN "either lat/lon or station_id must be provided"
    ELSE IF hasLatLon(r) /\ hasStationID(r) THEN "lat/lon and station_id are mutually exclusive"
    ELSE IF hasLatLon(r) /\ (Val(r.Lat) < -90 \/ Val(r.Lat) > 90) THEN "latitude must be between -90 and 90"
    ELSE IF hasLatLon(r) /\ (Val(r.Lon) < -180 \/ Val(r.Lon) > 180) THEN "longitude must be between -180 and 180"
    ELSE IF ~(r.Start < r.End) THEN "start time must be before end time"
    ELSE IF r.Interval < Minute THEN "interval must be at least 1 minute"
    ELSE IF r.Interval > MaxIntervalHours * Hour THEN "interval must be at most 6 hours"
    ELSE LET duration  == r.End - r.Start
             numPoints == duration \div r.Interval
         IN  IF duration > MaxRangeDays * 24 * Hour THEN "time range must be at most 365 days"
             ELSE IF numPoints > MaxNumPoints THEN "too many prediction points"
             ELSE NoErr

\* roundToDecimal: float64(int(val*1000 + 0.5)) / 1000.
roundToDecimal(val) ==
    Rat(RTrunc(RAdd(RMul(val, R(1000)), Rat(1, 2))), 1000)

\* time.Unix(0, 0) and time.Date(2012, 1, 1, 0, 0, 0, 0, time.UTC), in seconds.
UnixEpoch == 0
FESEpoch  == 1325376000


\* One PredictionPoint of the response (Time is the formatted instant; the
\* RFC3339 text has second resolution, which is the resolution of the model).
ToPoint(level, metadata, msl) ==
    [Time    |-> level.Time,
     HeightM |-> roundToDecimal(level.HeightM),
     DepthM  |-> IF metadata # NULL /\ metadata.DepthM # NULL
                 THEN roundToDecimal(RAdd(RAdd(metadata.DepthM, msl), level.HeightM))
                 ELSE NULL]

ToPoints(levels, metadata, msl) ==
    [i \in 1..Len(levels) |-> ToPoint(levels[i], metadata, msl)]

ConstituentNames(constituents) ==
    [i \in 1..Len(constituents) |-> constituents[i].Name]

\* A failed Execute: err is Execute's own message, cause the wrapped error.
Failure(err, cause, calls) ==
    [err |-> err, cause |-> cause, resp |-> NULL, calls |-> calls, params |-> NULL]

\* PredictionUseCase.Execute.  env holds what the collaborators answer:
\*   env.load       what the consulted loader returns: [err, constituents]
\*   env.hasBathy   uc.bathymetryStore != nil
\*   env.meta       the *LocationMetadata GetMetadata returns (NULL for nil)
\*   env.metaErr    TRUE when GetMetadata returns a non-nil error
\*   env.autoOffset the offset getAutoDatumOffset finds (NULL for ok = false)
\* calls lists the collaborators and synthesis steps in the order invoked.
Execute(req, env) ==
    LET verr == Validate(req)
        byStation == req.StationID # NULL
        loadCall  == IF byStation THEN "LoadForStation" ELSE "LoadForLocation"
        source    == IF byStation THEN sourceCSV ELSE sourceFES
        constituents == env.load.constituents
        wantMeta  == req.Lat # NULL /\ req.Lon # NULL /\ env.hasBathy
        metadata  == IF wantMeta THEN env.meta ELSE NULL
        msl0      == IF metadata # NULL THEN metadata.MSL ELSE R(0)
        wantAuto  == req.DatumOffsetM = NULL /\ req.Lat # NULL /\ req.Lon # NULL
        msl       == IF req.DatumOffsetM # NULL THEN RAdd(msl0, req.DatumOffsetM)
                     ELSE IF wantAuto /\ env.autoOffset # NULL THEN RAdd(msl0, env.autoOffset)
                     ELSE msl0
        lon       == IF req.Lon # NULL THEN Val(req.Lon) ELSE 0
        phaseConv == IF req.PhaseConvention \in {"vu", "VU"} THEN "PhaseConvVu"
                     ELSE "PhaseConvFESGreenwich"
        refTime   == IF source = sourceFES THEN FESEpoch ELSE UnixEpoch
        params    == [Constituents |-> constituents, MSL |-> msl, Longitude |-> lon,
                      ReferenceTime |-> refTime, PhaseConvention |-> phaseConv]
        predictions == GeneratePredictions(req.Start, req.End, req.Interval, params)
        extrema   == RefineExtrema(predictions, FindExtrema(predictions))
        tz        == IF req.Timezone = "" THEN "utc" ELSE req.Timezone
        tzLabel   == IF tz \in {"jst", "JST"} THEN "+09:00" ELSE "+00:00"
        calls     == <<loadCall>>
                     \o (IF wantMeta THEN <<"GetMetadata">> ELSE <<>>)
                     \o (IF wantAuto THEN <<"getAutoDatumOffset">> ELSE <<>>)
                     \o <<"GeneratePredictions", "FindExtrema", "RefineExtrema">>
        response  ==
            [Source       |-> source,
             Datum        |-> IF req.Datum = "" THEN "MSL" ELSE req.Datum,
             Timezone     |-> tzLabel,
             Constituents |-> ConstituentNames(constituents),
             Predictions  |-> ToPoints(predictions, metadata, msl),
             Extrema      |-> [Highs |-> ToPoints(extrema.Highs, metadata, msl),
                               Lows  |-> ToPoints(extrema.Lows, metadata, msl)],
             MSL          |-> IF metadata # NULL /\ metadata.MSL # R(0) THEN metadata.MSL ELSE NULL,
             SeabedDepth  |-> IF metadata # NULL THEN metadata.DepthM ELSE NULL,
             DatumOffset  |-> req.DatumOffsetM]
    IN  IF verr # NoErr THEN Failure("invalid request", verr, <<>>)
        ELSE IF byStation /\ req.Source = sourceFES
             THEN Failure("FES source does not support station_id", NoErr, <<>>)
        ELSE IF ~byStation /\ req.Source = sourceCSV
             THEN Failure("CSV source does not support lat/lon", NoErr, <<>>)
        ELSE IF env.load.err # NoErr
             THEN Failure("failed to load constituents", env.load.err, <<loadCall>>)
        ELSE [err |-> NoErr, cause |-> NoErr, resp |-> response, calls |-> calls, params |-> params]

(***************************************************************************)
(* internal/adapter/store/fes/netcdf.go                                    *)
(*                                                                         *)
(* A NetCDF file is a record [path, lat, lon, vars, fill]: path lists its  *)
(* components below the data directory, lat and lon are the coordinate     *)
(* arrays, vars holds the 2-D data variables by name, each stored as       *)
(* [lat index][lon index], and fill is the _FillValue attribute of the     *)
(* data variables (NULL when absent).  The data directory is the list of   *)
(* its files in WalkDir order.  File names are lower case.                 *)
(***************************************************************************)
amplitudeVarName == "amplitude"

DefaultConfig ==
    [LatVarName |-> "lat", LonVarName |-> "lon",
     AmplitudeVarName |-> amplitudeVarName, PhaseVarName |-> "phase"]

\* domain.StandardConstituents: angular speeds in degrees per hour.
StandardConstituents ==
    [M2 |-> Rat(289841042, 10000000), S2 |-> R(30), N2 |-> Rat(284397295, 10000000),
     K2 |-> Rat(300821373, 10000000), K1 |-> Rat(150410686, 10000000),
     O1 |-> Rat(139430356, 10000000), P1 |-> Rat(149589314, 10000000),
     Q1 |-> Rat(133986609, 10000000), M4 |-> Rat(579682084, 10000000),
     M6 |-> Rat(869523127, 10000000), MK3 |-> Rat(440251729, 10000000),
     S4 |-> R(60), MN4 |-> Rat(574238337, 10000000), MS4 |-> Rat(589841042, 10000000),
     Mf |-> Rat(10980331, 10000000), Mm |-> Rat(5443747, 10000000),
     Ssa |-> Rat(821373, 10000000), Sa |-> Rat(410686, 10000000)]

\* domain.GetConstituentSpeed: (speed, ok).
GetConstituentSpeed(name) ==
    IF name \in DOMAIN StandardConstituents
    THEN [speed |-> StandardConstituents[name], ok |-> TRUE]
    ELSE [speed |-> R(0), ok |-> FALSE]

\* strings.ToLower on the constituent names LoadForLocation asks for; these
\* are also the names strings.ToUpper maps a file's base name back to.
ToLower ==
    [M2 |-> "m2", S2 |-> "s2", N2 |-> "n2", K2 |-> "k2", K1 |-> "k1", O1 |-> "o1",
     P1 |-> "p1", Q1 |-> "q1", M4 |-> "m4", MS4 |-> "ms4", MN4 |-> "mn4", S4 |-> "s4",
     M6 |-> "m6", MK3 |-> "mk3"]

\* d.Name(): the last component of a path.
BaseName(path) == path[Len(path)]

\* strings.Contains(strings.ToLower(filepath), part), for a part that is a whole component.
PathContains(path, part) == \E i \in 1..Len(path) : path[i] = part

\* The file names GetAvailableConstituents reduces to a constituent name: the
\* lower-case name, with or without an _amplitude/_amp/_phase/_pha suffix, and ".nc".
FileNamesOf ==
    [c \in DOMAIN ToLower |->
        {ToLower[c] \o suffix \o ".nc" : suffix \in {"", "_amplitude", "_amp", "_phase", "_pha"}}]

\* GetAvailableConstituents: the standard constituents some file is named after.
GetAvailableConstituents(dir) ==
    {c \in DOMAIN ToLower :
        /\ GetConstituentSpeed(c).ok
        /\ \E i \in 1..Len(dir) : BaseName(dir[i].path) \in FileNamesOf[c]}

\* findFirstFile's findByName: the first file of the walk whose name is target (NULL if none).
RECURSIVE findByName(_, _)
findByName(dir, target) ==
    IF dir = <<>> THEN NULL
    ELSE IF BaseName(Head(dir).path) = target THEN Head(dir)
    ELSE findByName(Tail(dir), target)

\* findFirstFile: the file of the first candidate that is found; NULL for "not found".
RECURSIVE findFirstFile(_, _)
findFirstFile(dir, candidates) ==
    IF candidates = <<>> THEN NULL
    ELSE LET match == findByName(dir, Head(candidates))
         IN  IF match # NULL THEN match ELSE findFirstFile(dir, Tail(candidates))

\* math.Mod(a, m) for m > 0: the remainder with the sign of a.
RMod(a, m) == RSub(a, RMul(R(m), R(RTrunc(RDiv(a, R(m))))))

\* Mutant of normalizeLon360: a negative remainder is not lifted by 360.
normalizeLon360_NoLift(lon) == RMod(lon, 360)

normalizeLon360(lon) ==
    LET r == RMod(lon, 360)
    IN  IF RLess(r, R(0)) THEN RAdd(r, R(360)) ELSE r

\* The binary search of findGridCell; left and right are the source's 0-based indices.
RECURSIVE FindCellLoop(_, _, _, _)
FindCellLoop(coords, val, left, right) ==
    IF left < right - 1
    THEN LET mid == (left + right) \div 2
         IN  IF RLeq(coords[mid + 1], val)
             THEN FindCellLoop(coords, val, mid, right)
             ELSE FindCellLoop(coords, val, left, mid)
    ELSE left

\* Mutant of findGridCell: the last node of the axis counts as outside.
findGridCell_HalfOpen(coords, val) ==
    LET n == Len(coords)
    IN  IF n < 2 THEN -1
        ELSE IF RLess(val, coords[1]) \/ RLeq(coords[n], val) THEN -1
        ELSE FindCellLoop(coords, val, 0, n - 1)

\* findGridCell: the 0-based lower index of the cell holding val, -1 outside the axis.
findGridCell(coords, val) ==
    LET n == Len(coords)
    IN  IF n < 2 THEN -1
        ELSE IF RLess(val, coords[1]) \/ RLess(coords[n], val) THEN -1
        ELSE FindCellLoop(coords, val, 0, n - 1)

\* readSubset2x2: [err, values]; values[1][1] is the corner (latIdx, lonIdx).
readSubset2x2(v, nLat, nLon, latIdx, lonIdx) ==
    LET dim0Len == Len(v)
        dim1Len == IF Len(v) = 0 THEN 0 ELSE Len(v[1])
    IN  IF latIdx < 0 \/ latIdx >= nLat - 1 \/ lonIdx < 0 \/ lonIdx >= nLon - 1
        THEN [err |-> "invalid indices", values |-> <<>>]
        ELSE IF dim0Len = nLat /\ dim1Len = nLon
        THEN [err |-> NoErr,
              values |-> <<<<v[latIdx + 1][lonIdx + 1], v[latIdx + 1][lonIdx + 2]>>,
                           <<v[latIdx + 2][lonIdx + 1], v[latIdx + 2][lonIdx + 2]>>>>]
        ELSE IF dim0Len = nLon /\ dim1Len = nLat
        THEN [err |-> NoErr,
              values |-> <<<<v[lonIdx + 1][latIdx + 1], v[lonIdx + 2][latIdx + 1]>>,
                           <<v[lonIdx + 1][latIdx + 2], v[lonIdx + 2][latIdx + 2]>>>>]
        ELSE [err |-> "dimension mismatch", values |-> <<>>]

\* Corners equal to the fill value become 0.
ReplaceFill(values, fill) ==
    IF fill = NULL THEN values
    ELSE [i \in 1..2 |-> [j \in 1..2 |-> IF values[i][j] = fill THEN R(0) ELSE values[i][j]]]

\* values[i][j] /= 100.0 for the four corners.
DivideBy100(values) == [i \in 1..2 |-> [j \in 1..2 |-> RDiv(values[i][j], R(100))]]

\* math.Hypot(re, im) and Rad2Deg(math.Atan2(im, re)), exact when re or im is 0
\* (the complex grids of the input set are axis aligned).
Hypot(re, im) == RAdd(RAbs(re), RAbs(im))
Atan2Deg(im, re) ==
    IF im[1] = 0 THEN (IF re[1] < 0 THEN R(180) ELSE R(0))
    ELSE IF im[1] > 0 THEN R(90) ELSE R(-90)

bilinearInterpolate(lats, lons, values, lat, lon) ==
    LET dx == RDiv(RSub(lon, lons[1]), RSub(lons[2], lons[1]))
        dy == RDiv(RSub(lat, lats[1]), RSub(lats[2], lats[1]))
        v00 == values[1][1]
        v01 == values[1][2]
        v10 == values[2][1]
        v11 == values[2][2]
        mdx == RSub(R(1), dx)
        mdy == RSub(R(1), dy)
    IN  RAdd(RAdd(RAdd(RMul(RMul(mdx, mdy), v00), RMul(RMul(dx, mdy), v01)),
                  RMul(RMul(mdx, dy), v10)),
             RMul(RMul(dx, dy), v11))

\* The first of names that is a variable of the file ("" when none is).
RECURSIVE FirstVar(_, _)
FirstVar(file, names) ==
    IF names = <<>> THEN ""
    ELSE IF Head(names) \in DOMAIN file.vars THEN Head(names)
    ELSE FirstVar(file, Tail(names))

\* interpolatePointFromNetCDF for the data variable names DefaultConfig gives
\* ("amplitude" or "phase"): [err, value].
interpolatePointFromNetCDF(file, dataVarName, lat, lon) ==
    LET latData == file.lat
        lonData == file.lon
        latIdx  == findGridCell(latData, lat)
        lonIdx  == findGridCell(lonData, lon)
        wantAmp == dataVarName = amplitudeVarName      \* the name contains "amp"
        dataNames == <<dataVarName>>
                     \o (IF wantAmp
                         THEN <<"amplitude", "Amplitude", "amp", "Amp", "HA", "Ha", "ha", "H", "h">>
                         ELSE <<"phase", "Phase", "pha", "Pha", "Hg", "HG", "hg", "g", "G",
                                "phi", "Phi", "PHI", "phase_deg">>)
                     \o <<"data", "z">>
        dataVar == FirstVar(file, dataNames)
        realVar == FirstVar(file, <<"hRe", "Hre", "hre", "Re", "RE", "real", "Real">>)
        imagVar == FirstVar(file, <<"hIm", "Him", "him", "Im", "IM", "imag", "Imag">>)
        oceanTide == PathContains(file.path, "ocean_tide")
        lats == SubSeq(latData, latIdx + 1, latIdx + 2)
        lons == SubSeq(lonData, lonIdx + 1, lonIdx + 2)
        \* the complex pair
        reRead == readSubset2x2(file.vars[realVar], Len(latData), Len(lonData), latIdx, lonIdx)
        imRead == readSubset2x2(file.vars[imagVar], Len(latData), Len(lonData), latIdx, lonIdx)
        reVals == ReplaceFill(reRead.values, file.fill)
        imVals == ReplaceFill(imRead.values, file.fill)
        polar  == [i \in 1..2 |-> [j \in 1..2 |->
                      IF wantAmp THEN Hypot(reVals[i][j], imVals[i][j])
                      ELSE LET deg == Atan2Deg(imVals[i][j], reVals[i][j])
                           IN  IF RLess(deg, R(0)) THEN RAdd(deg, R(360)) ELSE deg]]
        polarM == IF wantAmp /\ oceanTide THEN DivideBy100(polar) ELSE polar
        \* the data variable
        read   == readSubset2x2(file.vars[dataVar], Len(latData), Len(lonData), latIdx, lonIdx)
        filled == ReplaceFill(read.values, file.fill)
        values == IF wantAmp /\ oceanTide THEN DivideBy100(filled) ELSE filled
    IN  IF latIdx < 0 \/ lonIdx < 0
        THEN [err |-> "outside grid bounds", value |-> R(0)]
        ELSE IF dataVar = ""
        THEN IF realVar = "" \/ imagVar = ""
             THEN [err |-> "data variable not found", value |-> R(0)]
             ELSE IF reRead.err # NoErr THEN [err |-> "failed to read real subset", value |-> R(0)]
             ELSE IF imRead.err # NoErr THEN [err |-> "failed to read imag subset", value |-> R(0)]
             ELSE [err |-> NoErr, value |-> bilinearInterpolate(lats, lons, polarM, lat, lon)]
        ELSE IF read.err # NoErr THEN [err |-> "failed to read data subset", value |-> R(0)]
        ELSE [err |-> NoErr, value |-> bilinearInterpolate(lats, lons, values, lat, lon)]

\* Store.interpolateConstituentAtPoint: [err, amplitude, phase].
interpolateConstituentAtPoint(dir, name, lat, lon) ==
    LET nameLower == ToLower[name]
        config    == DefaultConfig
        ampCandidates == <<"ocean_tide/" \o nameLower \o ".nc", nameLower \o ".nc",
                           nameLower \o "_amplitude.nc", nameLower \o "_amp.nc">>
        phaCandidates == <<"ocean_tide/" \o nameLower \o ".nc", nameLower \o ".nc",
                           nameLower \o "_phase.nc", nameLower \o "_pha.nc">>
        ampPath == findFirstFile(dir, ampCandidates)
        phaPath == findFirstFile(dir, phaCandidates)
        normLon == normalizeLon360(lon)
        amp == interpolatePointFromNetCDF(ampPath, config.AmplitudeVarName, lat, normLon)
        pha == interpolatePointFromNetCDF(phaPath, config.PhaseVarName, lat, normLon)
        fail(msg) == [err |-> msg, amplitude |-> R(0), phase |-> R(0)]
    IN  IF ampPath = NULL THEN fail("amplitude file not found")
        ELSE IF phaPath = NULL THEN fail("phase file not found")
        ELSE IF amp.err # NoErr THEN fail("failed to interpolate amplitude")
        ELSE IF pha.err # NoErr THEN fail("failed to interpolate phase")
        ELSE [err |-> NoErr, amplitude |-> RDiv(amp.value, R(100)), phase |-> pha.value]

\* Mutant of majorConstituents: the names in alphabetical order.
majorConstituents_Alphabetical == <<"K1", "K2", "M2", "N2", "O1", "P1", "Q1", "S2">>

majorConstituents == <<"M2", "S2", "N2", "K2", "K1", "O1", "P1", "Q1">>
shallowWaterConstituents == <<"M4", "MS4", "MN4", "S4">>

\* The loop of LoadForLocation over the constituents to load.
RECURSIVE LoadLoop(_, _, _, _, _)
LoadLoop(dir, constituents, lat, lon, params) ==
    IF constituents = <<>> THEN params
    ELSE LET constName == Head(constituents)
             at    == interpolateConstituentAtPoint(dir, constName, lat, lon)
             speed == GetConstituentSpeed(constName)
         IN  IF at.err # NoErr \/ ~speed.ok
             THEN LoadLoop(dir, Tail(constituents), lat, lon, params)
             ELSE LoadLoop(dir, Tail(constituents), lat, lon,
                           Append(params, [Name |-> constName, AmplitudeM |-> at.amplitude,
                                           PhaseDeg |-> at.phase, SpeedDegPerHr |-> speed.speed]))

\* Store.LoadForLocation: [err, params].
LoadForLocation(dir, lat, lon) ==
    LET requestedConstituents == majorConstituents \o shallowWaterConstituents
        available == GetAvailableConstituents(dir)
        inAvailable(c) == c \in available
        constituents == SelectSeq(requestedConstituents, inAvailable)
        params == LoadLoop(dir, constituents, lat, lon, <<>>)
    IN  IF available = {} THEN [err |-> "no FES NetCDF files found", params |-> <<>>]
        ELSE IF Len(params) = 0
        THEN [err |-> "no valid constituents found for location", params |-> <<>>]
        ELSE [err |-> NoErr, params |-> params]

(***************************************************************************)
(* Bounds and input sets.                                                  *)
(***************************************************************************)
WaveLen   == 4     \* samples in a tabulated wave
MaxWave   == 1     \* wave samples range over 0..MaxWave (metres)
MaxLen    == 5     \* longest series handed to FindExtrema / RefineExtrema
MaxHeight == 2     \* heights of those series range over 0..MaxHeight (metres)
GenUnit   == 30 * Second   \* grain of the short GeneratePredictions arguments
MaxStart  == 2     \* short series start at 0..MaxStart grains
MaxEnd    == 8     \* and end at 0..MaxEnd grains
MaxInterval == 4   \* with an interval of 1..MaxInterval grains

Waves == [1..WaveLen -> 0..MaxWave]

Requests ==
    [Lat : {NULL, Some(35), Some(91)}, Lon : {NULL, Some(140), Some(181)},
     StationID : {NULL, Some(""), Some("tokyo")},
     Start : {0}, End : {0, 2 * Minute, WaveLen * Minute, MaxRangeDays * 24 * Hour + 1},
     Interval : {Minute - 1, Minute, 2 * Minute, MaxIntervalHours * Hour + 1},
     Datum : {""}, Source : {"", sourceCSV, sourceFES},
     DatumOffsetM : {NULL, R(1)}, Timezone : {""}, PhaseConvention : {""}]

Metadatas ==
    {[MSL |-> R(0), DepthM |-> NULL, DatumName |-> "EGM2008", SourceName |-> "DTU21 MSS"],
     [MSL |-> Rat(1, 2), DepthM |-> R(10), DatumName |-> "EGM2008",
      SourceName |-> "GEBCO 2025 + DTU21 MSS"]}

\* What a ConstituentLoader can answer: an error, or a list of constituents.
Loads ==
    {[err |-> "not found", constituents |-> <<>>], [err |-> NoErr, constituents |-> <<>>]}
    \cup {[err |-> NoErr, constituents |-> <<[Name |-> "M2", Wave |-> w]>>] : w \in Waves}

\* No bathymetry store; a store answering (nil, nil), (nil, err) or (metadata, nil).
Envs ==
    [load : Loads, hasBathy : {FALSE}, meta : {NULL}, metaErr : {FALSE},
     autoOffset : {NULL, R(2)}]
    \cup
    [load : Loads, hasBathy : {TRUE}, meta : {NULL}, metaErr : BOOLEAN,
     autoOffset : {NULL, R(2)}]
    \cup
    [load : Loads, hasBathy : {TRUE}, meta : Metadatas, metaErr : {FALSE},
     autoOffset : {NULL, R(2)}]

(***************************************************************************)
(* Specification of one Execute call.                                      *)
(***************************************************************************)
ExecIdle == execReq = NULL /\ execEnv = NULL /\ execOut = NULL
GenIdle  == genIn = NULL /\ genT = 0 /\ genN = 0 /\ genLast = NULL /\ genPc = "idle"
ExIdle   == exSeries = <<>> /\ exFound = NULL /\ exRefined = NULL
FesIdle  == fesDir = NULL /\ fesQuery = NULL /\ fesOut = NULL /\ fesCache = NULL
ItpIdle  == itpGrid = NULL /\ itpCell = NULL /\ itpQuery = NULL /\ itpCellOut = NULL /\ itpOut = NULL
RfIdle   == rfIn = NULL /\ rfOut = NULL
BathIdle ==
    /\ bathCfg = NULL /\ mslGrid = NULL /\ mslBounds = NULL /\ depthGrid = NULL
    /\ depthBounds = NULL /\ mu = NULL /\ bathCalls = NULL
GeoIdle  == geoidPath = NULL /\ geoidGrid = NULL /\ geoQuery = NULL /\ geoOut = NULL
NodIdle  == nodIn = NULL /\ nodOut = NULL
OvIdle   == ovIn = NULL /\ ovOut = NULL
CellIdle == cellIn = NULL /\ cellOut = NULL
DatumIdle ==
    /\ datumImpl = NULL /\ datumOnce = NULL /\ datumOffsetsLoaded = NULL
    /\ datumOffsetTable = NULL /\ datumCalls = NULL /\ datumLog = NULL
RdIdle   == rdIn = NULL /\ rdOut = NULL
LateIdle == NodIdle /\ OvIdle /\ CellIdle /\ DatumIdle /\ RdIdle
EarlyIdle ==
    /\ ExecIdle /\ GenIdle /\ ExIdle /\ FesIdle /\ ItpIdle /\ RfIdle /\ BathIdle /\ GeoIdle
OtherIdle == ItpIdle /\ RfIdle /\ BathIdle /\ GeoIdle /\ LateIdle

InitExec ==
    /\ execReq \in Requests
    /\ execEnv \in Envs
    /\ execOut = NULL
    /\ GenIdle /\ ExIdle /\ FesIdle /\ OtherIdle

ExecuteAct ==
    /\ execOut = NULL
    /\ execOut' = Execute(execReq, execEnv)
    /\ UNCHANGED <<execReq, execEnv, genVars, exVars, fesVars, otherVars>>

NextExec == ExecuteAct
SpecExec == InitExec /\ [][NextExec]_vars

(***************************************************************************)
(* Claims about Execute (checked under SpecExec).                          *)
(***************************************************************************)
ExecDone      == execOut # NULL
ExecAccepted  == ExecDone /\ Validate(execReq) = NoErr
ExecSucceeded == ExecDone /\ execOut.err = NoErr
Invoked(c)    == \E i \in 1..Len(execOut.calls) : execOut.calls[i] = c

\* C1: every request Validate accepts carries exactly one selector (a non-empty
\* station id, or both lat and lon), and whenever Execute consults a constituent
\* source for it, that is the station source exactly when the selector is the
\* station id and the location source exactly when the selector is lat/lon.
C1_SelectorDecidesSource ==
    ExecAccepted =>
        /\ hasStationID(execReq) # hasLatLon(execReq)
        /\ Invoked("LoadForStation") => hasStationID(execReq)
        /\ Invoked("LoadForLocation") => hasLatLon(execReq)

\* The four time-range defects C2 names.
BadTimeRange(r) ==
    \/ ~(r.Start < r.End)
    \/ r.Interval < Minute
    \/ r.Interval > 6 * Hour
    \/ r.End - r.Start > 365 * 24 * Hour

\* C2: a request with start not before end, an interval under 1 minute or over
\* 6 hours, or a range over 365 days is answered with a validation error, with
\* no constituent source, metadata sampler or synthesis step invoked and no
\* response built from an adjusted request.
C2_BadRangeRejectedFirst ==
    (ExecDone /\ BadTimeRange(execReq)) =>
        /\ execOut.err = "invalid request"
        /\ execOut.calls = <<>>
        /\ execOut.resp = NULL
        /\ execOut.params = NULL

\* C2 witness: a bad interval on a request whose selector is fine and whose
\* source would have answered, rejected.
C2_Witness ==
    /\ ExecDone
    /\ execReq.Interval > 6 * Hour
    /\ execReq.Start < execReq.End
    /\ hasStationID(execReq) /\ ~hasLatLon(execReq)
    /\ execEnv.load.err = NoErr
    /\ execOut.err = "invalid request"
    /\ execOut.cause = "interval must be at most 6 hours"

\* The explicit source of the request names the other kind of source than its selector.
SourceMismatch(r) ==
    \/ hasStationID(r) /\ r.Source = sourceFES
    \/ hasLatLon(r) /\ r.Source = sourceCSV

\* The datum offset Execute is to add for the request.
DatumOffsetFor(r, env) ==
    IF r.DatumOffsetM # NULL THEN r.DatumOffsetM
    ELSE IF r.Lat # NULL /\ r.Lon # NULL /\ env.autoOffset # NULL THEN env.autoOffset
    ELSE R(0)

AllDepthsAbsent(points) == \A i \in 1..Len(points) : points[i].DepthM = NULL

\* C4: for a validated request Execute fails iff the constituent source fails
\* or the explicit source does not match the selector; when the metadata
\* sampler fails or has nothing, the request proceeds with mean sea level 0
\* plus the datum offset and without depth values.
C4_OnlySourceFailureIsFatal ==
    ExecAccepted =>
        /\ (execOut.err # NoErr) <=>
              (SourceMismatch(execReq) \/ execEnv.load.err # NoErr)
        /\ (ExecSucceeded /\ execEnv.meta = NULL) =>
              /\ execOut.params.MSL = DatumOffsetFor(execReq, execEnv)
              /\ execOut.resp.SeabedDepth = NULL
              /\ AllDepthsAbsent(execOut.resp.Predictions)
              /\ AllDepthsAbsent(execOut.resp.Extrema.Highs)
              /\ AllDepthsAbsent(execOut.resp.Extrema.Lows)

ExecSeries ==
    GeneratePredictions(execReq.Start, execReq.End, execReq.Interval, execOut.params)

StrictHighAt(series, i) ==
    /\ 1 < i /\ i < Len(series)
    /\ RLess(series[i - 1].HeightM, series[i].HeightM)
    /\ RLess(series[i + 1].HeightM, series[i].HeightM)
StrictLowAt(series, i) ==
    /\ 1 < i /\ i < Len(series)
    /\ RLess(series[i].HeightM, series[i - 1].HeightM)
    /\ RLess(series[i].HeightM, series[i + 1].HeightM)

HighIdx(series) == {i \in 1..Len(series) : StrictHighAt(series, i)}
LowIdx(series)  == {i \in 1..Len(series) : StrictLowAt(series, i)}

\* The k-th smallest element of a finite set of integers.
KthOf(S, k) == CHOOSE x \in S : Cardinality({y \in S : y < x}) = k - 1

\* Every entry of list refines, strictly within one interval, the k-th sample of series in idx.
RefinesSamples(list, series, idx, interval) ==
    /\ Len(list) = Cardinality(idx)
    /\ \A k \in 1..Len(list) :
          LET t == series[KthOf(idx, k)].Time
          IN  t - interval < list[k].Time /\ list[k].Time < t + interval

GenRequest(start, end, interval) ==
    [Lat |-> NULL, Lon |-> NULL, StationID |-> Some("tokyo"),
     Start |-> start, End |-> end, Interval |-> interval,
     Datum |-> "", Source |-> "", DatumOffsetM |-> NULL, Timezone |-> "",
     PhaseConvention |-> ""]

\* Short ranges on a half-minute grain, and one-minute requests around the
\* point limit of Validate.
GenRequests ==
    {GenRequest(s * GenUnit, e * GenUnit, i * GenUnit) :
        s \in 0..MaxStart, e \in 0..MaxEnd, i \in 1..MaxInterval}
    \cup
    {GenRequest(0, e, Minute) :
        e \in {MaxNumPoints * Minute - 1, MaxNumPoints * Minute,
               MaxNumPoints * Minute + Minute - 1, (MaxNumPoints + 1) * Minute}}

\* The parameters Execute builds for a station request with one constituent.
GenParams ==
    [Constituents |-> <<[Name |-> "M2", Wave |-> [k \in 1..WaveLen |-> IF k = 2 THEN MaxWave ELSE 0]]>>,
     MSL |-> R(0), Longitude |-> 0, ReferenceTime |-> UnixEpoch,
     PhaseConvention |-> "PhaseConvFESGreenwich"]

\* predictions := make([]TideLevel, 0); t := start.
InitGen ==
    /\ genIn \in GenRequests
    /\ genT = genIn.Start
    /\ genN = 0
    /\ genLast = NULL
    /\ genPc = "loop"
    /\ ExecIdle /\ ExIdle /\ FesIdle /\ OtherIdle

\* One iteration of the loop body followed by the post statement.
GenAppend ==
    /\ genPc = "loop"
    /\ LoopContinues(genT, genIn.End)
    /\ genLast' = [Time |-> genT, HeightM |-> CalculateTideHeight(genT, GenParams)]
    /\ genN' = genN + 1
    /\ genT' = LoopAdvance(genT, genIn.Interval)
    /\ UNCHANGED <<genIn, genPc, execVars, exVars, fesVars, otherVars>>

\* The loop condition fails: return predictions.
GenReturn ==
    /\ genPc = "loop"
    /\ ~LoopContinues(genT, genIn.End)
    /\ genPc' = "done"
    /\ UNCHANGED <<genIn, genT, genN, genLast, execVars, exVars, fesVars, otherVars>>

NextGen == GenAppend \/ GenReturn
SpecGen == InitGen /\ [][NextGen]_vars

(***************************************************************************)
(* Claims about GeneratePredictions (checked under SpecGen).               *)
(***************************************************************************)
GenDone == genPc = "done"

\* C3: for every request Validate accepts, the series GeneratePredictions
\* returns holds at most 10000 points.
C3_AtMostMaxPoints ==
    (GenDone /\ Validate(genIn) = NoErr) => genN <= 10000

\* The series is short enough for the recursive form of GeneratePredictions.
GenShort == genIn.End <= MaxEnd * GenUnit

\* C5: for start <= end and interval > 0, GeneratePredictions returns exactly
\* floor((end - start) / interval) + 1 levels, the i-th (from 0) at time
\* start + i*interval: strictly increasing, the first at start, none after end,
\* end included exactly when end - start is a whole multiple of interval; a
\* second call with the same arguments returns the same list.  (Every level
\* is the last one in the state after its append, so the per-state conjuncts
\* speak of every index.)
C5_LevelsOnIntervalGrid ==
    LET start == genIn.Start
        end == genIn.End
        interval == genIn.Interval
        again == GeneratePredictions(start, end, interval, GenParams)
    IN  (genPc # "idle" /\ start <= end /\ interval > 0) =>
            /\ genN = 0 => genLast = NULL
            /\ genN > 0 =>
                  /\ genLast.Time = start + (genN - 1) * interval
                  /\ genLast.Time <= end
                  /\ genN > 1 => genLast.Time - interval >= start
            /\ GenDone =>
                  /\ genN = ((end - start) \div interval) + 1
                  /\ (genLast.Time = end) <=> ((end - start) % interval = 0)
                  /\ GenShort =>
                        /\ Len(again) = genN
                        /\ again[genN] = genLast
                        /\ \A i \in 1..genN : again[i].Time = start + (i - 1) * interval

\* C5 witness: a returned series of several levels whose end is off the grid,
\* and so is left out.
C5_Witness ==
    /\ GenDone
    /\ genIn.Start < genIn.End
    /\ (genIn.End - genIn.Start) % genIn.Interval # 0
    /\ genN >= 3
    /\ genLast.Time < genIn.End

(***************************************************************************)
(* Specification of FindExtrema followed by RefineExtrema on one series,   *)
(* as Execute chains them.  The series have strictly increasing times, as  *)
(* every series GeneratePredictions returns has.                           *)
(***************************************************************************)
RECURSIVE SampleTime(_, _)
SampleTime(gaps, i) == IF i = 1 THEN 0 ELSE SampleTime(gaps, i - 1) + gaps[i] * Minute

SeriesOf(n, gaps, hs) ==
    [i \in 1..n |-> [Time |-> SampleTime(gaps, i), HeightM |-> R(hs[i])]]

\* Spacings between consecutive samples, in minutes.
Gaps == {1, 2}

\* Series of up to MaxLen samples: heights 0..MaxHeight, the first sample at
\* time 0 and every later one a spacing of Gaps after its predecessor.
InitExtrema ==
    /\ \E n \in 0..MaxLen : \E gaps \in [2..n -> Gaps], hs \in [1..n -> 0..MaxHeight] :
          exSeries = SeriesOf(n, gaps, hs)
    /\ exFound = NULL
    /\ exRefined = NULL
    /\ ExecIdle /\ GenIdle /\ FesIdle /\ OtherIdle

\* extrema := domain.FindExtrema(predictions)
FindAct ==
    /\ exFound = NULL
    /\ exFound' = FindExtrema(exSeries)
    /\ UNCHANGED <<exSeries, exRefined, execVars, genVars, fesVars, otherVars>>

\* extrema = domain.RefineExtrema(predictions, extrema)
RefineAct ==
    /\ exFound # NULL
    /\ exRefined = NULL
    /\ exRefined' = RefineExtrema(exSeries, exFound)
    /\ UNCHANGED <<exSeries, exFound, execVars, genVars, fesVars, otherVars>>

NextExtrema == FindAct \/ RefineAct
SpecExtrema == InitExtrema /\ [][NextExtrema]_vars

(***************************************************************************)
(* Claims about FindExtrema and RefineExtrema (checked under SpecExtrema). *)
(***************************************************************************)
\* list is the subsequence of series at the indices idx, in series order.
SubsequenceAt(list, series, idx) ==
    /\ Len(list) = Cardinality(idx)
    /\ \A k \in 1..Len(list) : list[k] = series[KthOf(idx, k)]

EndpointOrPlateau(series, i) ==
    \/ i = 1 \/ i = Len(series)
    \/ series[i].HeightM = series[i - 1].HeightM
    \/ series[i].HeightM = series[i + 1].HeightM

Reported(list, level) == \E k \in 1..Len(list) : list[k] = level

Chronological(list) == \A k \in 1..(Len(list) - 1) : list[k].Time < list[k + 1].Time

\* C6: FindExtrema reports sample i as a high exactly when i is interior with
\* h[i-1] < h[i] > h[i+1] and as a low exactly when i is interior with
\* h[i-1] > h[i] < h[i+1]; endpoints and samples with an equal neighbour are
\* never reported, fewer than 3 samples yield no extrema, and each list is in
\* input order.
C6_StrictInteriorExtrema ==
    exFound # NULL =>
        /\ SubsequenceAt(exFound.Highs, exSeries, HighIdx(exSeries))
        /\ SubsequenceAt(exFound.Lows, exSeries, LowIdx(exSeries))
        /\ \A i \in 1..Len(exSeries) :
              EndpointOrPlateau(exSeries, i) =>
                  /\ ~Reported(exFound.Highs, exSeries[i])
                  /\ ~Reported(exFound.Lows, exSeries[i])
        /\ Len(exSeries) < 3 => exFound = [Highs |-> <<>>, Lows |-> <<>>]
        /\ Chronological(exFound.Highs)
        /\ Chronological(exFound.Lows)

\* C6 witness: a series with a plateau, of which a high and a low were reported.
C6_Witness ==
    /\ exFound # NULL
    /\ Len(exFound.Highs) >= 1
    /\ Len(exFound.Lows) >= 1
    /\ \E i \in 2..(Len(exSeries) - 1) : exSeries[i].HeightM = exSeries[i + 1].HeightM

NonDecreasing(list) == \A k \in 1..(Len(list) - 1) : list[k].Time <= list[k + 1].Time

\* C8: RefineExtrema, given a series and the extrema FindExtrema found in it,
\* returns highs and lows lists as long as the lists it was given, each in
\* non-decreasing time order.
C8_RefinedSameLengthSorted ==
    exRefined # NULL =>
        /\ Len(exRefined.Highs) = Len(exFound.Highs)
        /\ Len(exRefined.Lows) = Len(exFound.Lows)
        /\ NonDecreasing(exRefined.Highs)
        /\ NonDecreasing(exRefined.Lows)

\* C8 witness: two highs and a low were refined and a refined high moved off
\* its sample time.
C8_Witness ==
    /\ exRefined # NULL
    /\ Len(exRefined.Highs) >= 2
    /\ Len(exRefined.Lows) >= 1
    /\ \E k \in 1..Len(exRefined.Highs) : exRefined.Highs[k].Time # exFound.Highs[k].Time


(***************************************************************************)
(* Specification of one LoadForLocation call on a data directory.  The     *)
(* store keeps no state between calls (the point path bypasses the cache). *)
(***************************************************************************)
LatAxis == <<R(30), R(35), R(40)>>
Lon360  == <<R(0), R(120), R(240), R(359)>>       \* an axis spanning [0, 360)
Lon180  == <<R(-180), R(-60), R(60), R(180)>>     \* an axis spanning [-180, 180]
FillValue == R(-9999)

\* Stored grids, [lat index][lon index]: amplitudes in centimetres, phases in degrees.
AmpGrid(kind) ==
    [i \in 1..Len(LatAxis) |-> [j \in 1..Len(Lon360) |->
        IF kind = "flat" THEN R(100)
        ELSE IF kind = "hole" /\ i = 2 /\ j = 2 THEN FillValue
        ELSE R(100 * j + 10 * i)]]
PhaGrid(kind) ==
    [i \in 1..Len(LatAxis) |-> [j \in 1..Len(Lon360) |->
        IF kind = "flat" THEN R(90) ELSE R(20 * j + i)]]
\* The same amplitudes as a complex pair whose phase is 0 or 90 degrees by cell.
ReGrid(kind) ==
    [i \in 1..Len(LatAxis) |-> [j \in 1..Len(Lon360) |->
        IF AmpGrid(kind)[i][j] = FillValue \/ (i + j) % 2 = 0 THEN AmpGrid(kind)[i][j] ELSE R(0)]]
ImGrid(kind) ==
    [i \in 1..Len(LatAxis) |-> [j \in 1..Len(Lon360) |->
        IF AmpGrid(kind)[i][j] = FillValue \/ (i + j) % 2 = 1 THEN AmpGrid(kind)[i][j] ELSE R(0)]]

\* The combined file <name>.nc of a data set laid out as layout says; kind
\* "broken" is a file without data variables.
FileOf(layout, name, kind) ==
    [path |-> layout.sub \o <<ToLower[name] \o ".nc">>,
     lat  |-> LatAxis,
     lon  |-> layout.lon,
     fill |-> layout.fill,
     vars |-> IF kind = "broken" THEN <<>>
              ELSE IF layout.complex
              THEN [hRe |-> ReGrid(kind), hIm |-> ImGrid(kind)]
              ELSE [amplitude |-> AmpGrid(kind), phase |-> PhaGrid(kind)]]

Layouts ==
    [sub : {<<>>, <<"ocean_tide">>}, lon : {Lon360, Lon180}, complex : BOOLEAN,
     fill : {NULL, FillValue}]

DirNames == <<"K1", "M2", "M4">>     \* walk order: k1.nc, m2.nc, m4.nc
\* What the data set holds for the i-th of DirNames.
FileKinds(i) ==
    IF i < Len(DirNames) THEN {"absent", "broken", "flat", "slope", "hole"}
    ELSE {"absent", "flat"}

RECURSIVE DirOf(_, _, _)
DirOf(layout, kinds, i) ==
    IF i > Len(DirNames) THEN <<>>
    ELSE (IF kinds[i] = "absent" THEN <<>> ELSE <<FileOf(layout, DirNames[i], kinds[i])>>)
         \o DirOf(layout, kinds, i + 1)

\* NewStore: cache: make(map[string]*Grid).
EmptyCache == [name \in {} |-> NULL]

QueryLats == {R(30), R(32), R(35), R(40), R(41)}
QueryLons == {R(-220), R(-180), R(-1), R(0), R(140), R(180), R(360), R(500)}

InitFes ==
    /\ \E layout \in Layouts,
          kinds \in {k \in [1..Len(DirNames) -> FileKinds(1)] :
                        \A i \in 1..Len(DirNames) : k[i] \in FileKinds(i)} :
          fesDir = DirOf(layout, kinds, 1)
    /\ fesQuery = NULL
    /\ fesOut = NULL
    /\ fesCache = EmptyCache
    /\ ExecIdle /\ GenIdle /\ ExIdle /\ OtherIdle

LoadForLocationAct ==
    /\ fesOut = NULL
    /\ \E lat \in QueryLats, lon \in QueryLons :
          /\ fesQuery' = [lat |-> lat, lon |-> lon]
          /\ fesOut' = LoadForLocation(fesDir, lat, lon)
    /\ UNCHANGED <<fesDir, fesCache, execVars, genVars, exVars, otherVars>>

NextFes == LoadForLocationAct
SpecFes == InitFes /\ [][NextFes]_vars

(***************************************************************************)
(* Claims about LoadForLocation (checked under SpecFes).                   *)
(***************************************************************************)
FesDone   == fesOut # NULL
FesLoaded == FesDone /\ fesOut.err = NoErr

\* The file a constituent of the answer was read from.
SourceFile(name) == findByName(fesDir, ToLower[name] \o ".nc")

\* The amplitude as stored, interpolated at the query point: what the point
\* reader returns for the same file read from outside any ocean_tide directory.
StoredAmplitudeAt(file, lat, lon) ==
    interpolatePointFromNetCDF([file EXCEPT !.path = <<BaseName(file.path)>>],
                               amplitudeVarName, lat, normalizeLon360(lon)).value

\* C9: for a constituent read from an ocean_tide combined file, the amplitude
\* LoadForLocation returns is the stored centimetre value, interpolated at the
\* point, divided by 100 once (stored 100 is returned as 1.0 metre).
C9_CentimetresDividedOnce ==
    FesLoaded =>
        \A k \in 1..Len(fesOut.params) :
            LET p == fesOut.params[k]
                file == SourceFile(p.Name)
            IN  PathContains(file.path, "ocean_tide") =>
                    p.AmplitudeM = RDiv(StoredAmplitudeAt(file, fesQuery.lat, fesQuery.lon), R(100))

MaxTurns == 2     \* whole turns added to or taken from a query longitude

\* Every file of the directory has a longitude axis within [0, 360).
AxisSpans360 ==
    \A i \in 1..Len(fesDir) :
        /\ RLeq(R(0), fesDir[i].lon[1])
        /\ RLess(fesDir[i].lon[Len(fesDir[i].lon)], R(360))

\* The longitude cell interpolateConstituentAtPoint looks up in a file.
LonCell(file, lon) == findGridCell(file.lon, normalizeLon360(lon))

\* C10: on a grid whose longitude axis spans [0, 360), a query longitude and
\* the same longitude moved by whole turns of 360 degrees resolve to the same
\* cell of every file and yield the same constituent parameters (or both fail).
C10_WholeTurnsSameCell ==
    (FesDone /\ AxisSpans360) =>
        \A turns \in (-MaxTurns)..MaxTurns :
            LET lon2 == RAdd(fesQuery.lon, R(360 * turns))
                out2 == LoadForLocation(fesDir, fesQuery.lat, lon2)
            IN  /\ \A i \in 1..Len(fesDir) :
                      LonCell(fesDir[i], lon2) = LonCell(fesDir[i], fesQuery.lon)
                /\ out2.params = fesOut.params
                /\ (out2.err = NoErr) <=> (fesOut.err = NoErr)

\* C10 witness: the query at -220 degrees was answered from the cell of 140
\* degrees with the parameters the query at 140 degrees gets.
C10_Witness ==
    /\ FesLoaded /\ AxisSpans360
    /\ fesQuery.lon = R(-220)
    /\ Len(fesOut.params) >= 2
    /\ \A i \in 1..Len(fesDir) : LonCell(fesDir[i], fesQuery.lon) = 1
    /\ fesOut = LoadForLocation(fesDir, fesQuery.lat, R(140))


(***************************************************************************)
(* internal/adapter/interp: bilinear interpolation on a cell and on a grid *)
(***************************************************************************)
\* a < b for rationals whose cross products would exceed TLC's 32-bit
\* integers: integer parts first, then the fractional parts by their
\* reciprocals (Euclid's algorithm).
RECURSIVE RLessWide(_, _)
RLessWide(a, b) ==
    LET fa == a[1] \div a[2]
        fb == b[1] \div b[2]
        ra == a[1] - fa * a[2]
        rb == b[1] - fb * b[2]
    IN  IF fa # fb THEN fa < fb
        ELSE IF rb = 0 THEN FALSE
        ELSE IF ra = 0 THEN TRUE
        ELSE RLessWide(<<b[2], rb>>, <<a[2], ra>>)

RLeqWide(a, b) == ~RLessWide(b, a)

Epsilon == Rat(1, 1000000000)    \* const epsilon = 1e-9

\* a < b - eps for 0 < eps < 1.  The integer parts decide when they are two or
\* more apart; otherwise both values are moved next to 0 before subtracting,
\* which keeps the difference within TLC's 32-bit integers.
BelowBy(a, b, eps) ==
    LET fa == a[1] \div a[2]
        fb == b[1] \div b[2]
    IN  IF fb - fa >= 2 THEN TRUE
        ELSE IF fb < fa THEN FALSE
        ELSE RLessWide(eps, RSub(<<b[1] - fa * b[2], b[2]>>, <<a[1] - fa * a[2], a[2]>>))

\* math.Max(0, math.Min(1, t))
Clamp01(t) == IF RLess(t, R(0)) THEN R(0) ELSE IF RLess(R(1), t) THEN R(1) ELSE t

ItpFailure(msg) == [err |-> msg, value |-> R(0)]

\* The blend of the four corner values for normalised coordinates t, u.
Blend(cell, t, u) ==
    RAdd(RAdd(RMul(RMul(RSub(R(1), t), RSub(R(1), u)), cell.V00),
              RMul(RMul(t, RSub(R(1), u)), cell.V10)),
         RAdd(RMul(RMul(RSub(R(1), t), u), cell.V01),
              RMul(RMul(t, u), cell.V11)))

\* Mutant of BilinearInterpolate: the weights of V10 and V01 are exchanged.
BilinearInterpolate_Swapped(cell, x, y) ==
    IF RLeq(cell.X1, cell.X0) THEN ItpFailure("invalid grid cell: X1 must be > X0")
    ELSE IF RLeq(cell.Y1, cell.Y0) THEN ItpFailure("invalid grid cell: Y1 must be > Y0")
    ELSE IF BelowBy(x, cell.X0, Epsilon) \/ BelowBy(cell.X1, x, Epsilon)
    THEN ItpFailure("x coordinate is outside grid cell")
    ELSE IF BelowBy(y, cell.Y0, Epsilon) \/ BelowBy(cell.Y1, y, Epsilon)
    THEN ItpFailure("y coordinate is outside grid cell")
    ELSE [err   |-> NoErr,
          value |-> Blend(cell,
                          Clamp01(RDiv(RSub(y, cell.Y0), RSub(cell.Y1, cell.Y0))),
                          Clamp01(RDiv(RSub(x, cell.X0), RSub(cell.X1, cell.X0))))]

\* BilinearInterpolate returns [err, value]; t runs along X, u along Y.
BilinearInterpolate(cell, x, y) ==
    IF RLeq(cell.X1, cell.X0) THEN ItpFailure("invalid grid cell: X1 must be > X0")
    ELSE IF RLeq(cell.Y1, cell.Y0) THEN ItpFailure("invalid grid cell: Y1 must be > Y0")
    ELSE IF BelowBy(x, cell.X0, Epsilon) \/ BelowBy(cell.X1, x, Epsilon)
    THEN ItpFailure("x coordinate is outside grid cell")
    ELSE IF BelowBy(y, cell.Y0, Epsilon) \/ BelowBy(cell.Y1, y, Epsilon)
    THEN ItpFailure("y coordinate is outside grid cell")
    ELSE [err   |-> NoErr,
          value |-> Blend(cell,
                          Clamp01(RDiv(RSub(x, cell.X0), RSub(cell.X1, cell.X0))),
                          Clamp01(RDiv(RSub(y, cell.Y0), RSub(cell.Y1, cell.Y0))))]

StrictlyIncreasing(axis) == \A i \in 2..Len(axis) : RLess(axis[i-1], axis[i])

\* Grid2D.Validate: NoErr or the first failed check.
Grid2DValidate(g) ==
    IF Len(g.X) < 2 THEN "grid must have at least 2 X coordinates"
    ELSE IF Len(g.Y) < 2 THEN "grid must have at least 2 Y coordinates"
    ELSE IF Len(g.Values) # Len(g.Y) THEN "number of value rows must match Y coordinates"
    ELSE IF \E i \in 1..Len(g.Values) : Len(g.Values[i]) # Len(g.X) THEN "row length mismatch"
    ELSE IF ~StrictlyIncreasing(g.X) THEN "X coordinates must be strictly increasing"
    ELSE IF ~StrictlyIncreasing(g.Y) THEN "Y coordinates must be strictly increasing"
    ELSE NoErr

\* Mutant of CellIndex: the upper edge of a cell is excluded.
CellIndex_HalfOpen(axis, v) ==
    LET hits == {i \in 0..(Len(axis) - 2) : RLeqWide(axis[i+1], v) /\ RLessWide(v, axis[i+2])}
    IN  IF hits = {} THEN -1 ELSE CHOOSE i \in hits : \A j \in hits : i <= j

\* The search loops of InterpolateAt: the first 0-based i in [0, len-2] with
\* axis[i] <= v <= axis[i+1], or -1.
CellIndex(axis, v) ==
    LET hits == {i \in 0..(Len(axis) - 2) : RLeqWide(axis[i+1], v) /\ RLeqWide(v, axis[i+2])}
    IN  IF hits = {} THEN -1 ELSE CHOOSE i \in hits : \A j \in hits : i <= j

\* The rest of InterpolateAt once the two searches have given xIdx and yIdx.
InterpolateInCell(g, xIdx, yIdx, x, y) ==
    IF xIdx = -1 THEN ItpFailure("x coordinate is outside grid range")
    ELSE IF yIdx = -1 THEN ItpFailure("y coordinate is outside grid range")
    ELSE BilinearInterpolate(
             [X0 |-> g.X[xIdx+1], X1 |-> g.X[xIdx+2],
              Y0 |-> g.Y[yIdx+1], Y1 |-> g.Y[yIdx+2],
              V00 |-> g.Values[yIdx+1][xIdx+1], V10 |-> g.Values[yIdx+1][xIdx+2],
              V01 |-> g.Values[yIdx+2][xIdx+1], V11 |-> g.Values[yIdx+2][xIdx+2]],
             x, y)

\* Grid2D.InterpolateAt returns [err, value]; Values[i][j] belongs to (X[j], Y[i]).
InterpolateAt(g, x, y) ==
    IF Grid2DValidate(g) # NoErr THEN ItpFailure("invalid grid")
    ELSE InterpolateInCell(g, CellIndex(g.X, x), CellIndex(g.Y, y), x, y)

(***************************************************************************)
(* Specification SpecInterp: one BilinearInterpolate call on a cell and    *)
(* one Grid2D.InterpolateAt call on a grid, for every cell, grid and point *)
(* of the bounded sets (valid and invalid grids alike).                    *)
(***************************************************************************)
MaxVal == 1     \* node values range over 0..MaxVal

ToRats(s) == [i \in 1..Len(s) |-> R(s[i])]
ItpAxesX == {<<0, 2>>, <<0, 2, 3>>, <<0>>, <<2, 0>>, <<0, 0, 3>>}
ItpAxesY == {<<0, 2>>, <<1, 3, 4>>, <<>>, <<3, 1>>}
ItpShapes == {"full", "rowMissing", "rowLong"}
\* -1/(1.05*10^9) is outside a cell edge at 0 but within its epsilon tolerance.
ItpXs == {R(-1), <<-1, 1050000000>>, R(0), R(1), R(2), <<5, 2>>, R(3), R(4)}
ItpYs == {R(0), R(1), R(2), R(3), R(4), R(5)}

\* Node (row i, column j) takes its value from a 2x2 table repeated over the
\* grid, so the four corners of every cell are independent of each other.
NodeValue(v, i, j) == R(v[2 * ((i - 1) % 2) + ((j - 1) % 2) + 1])
GridOf(xs, ys, v, shape) ==
    LET rows == IF shape = "rowMissing" /\ Len(ys) > 0 THEN Len(ys) - 1 ELSE Len(ys)
        cols(i) == IF shape = "rowLong" /\ i = 1 THEN Len(xs) + 1 ELSE Len(xs)
    IN  [X |-> ToRats(xs), Y |-> ToRats(ys),
         Values |-> [i \in 1..rows |-> [j \in 1..cols(i) |-> NodeValue(v, i, j)]]]
AxisAt(axis, i) == IF i <= Len(axis) THEN R(axis[i]) ELSE R(0)
CellOf(xs, ys, v) ==
    [X0 |-> AxisAt(xs, 1), X1 |-> AxisAt(xs, 2), Y0 |-> AxisAt(ys, 1), Y1 |-> AxisAt(ys, 2),
     V00 |-> NodeValue(v, 1, 1), V10 |-> NodeValue(v, 1, 2),
     V01 |-> NodeValue(v, 2, 1), V11 |-> NodeValue(v, 2, 2)]

InitInterp ==
    /\ \E xs \in ItpAxesX, ys \in ItpAxesY, v \in [1..4 -> 0..MaxVal], shape \in ItpShapes :
          /\ itpGrid = GridOf(xs, ys, v, shape)
          /\ itpCell = CellOf(xs, ys, v)
    /\ \E x \in ItpXs, y \in ItpYs : itpQuery = [x |-> x, y |-> y]
    /\ itpCellOut = NULL /\ itpOut = NULL
    /\ ExecIdle /\ GenIdle /\ ExIdle /\ FesIdle /\ RfIdle /\ BathIdle /\ GeoIdle /\ LateIdle

BilinearInterpolateAct ==
    /\ itpCellOut = NULL
    /\ itpCellOut' = BilinearInterpolate(itpCell, itpQuery.x, itpQuery.y)
    /\ UNCHANGED <<itpGrid, itpCell, itpQuery, itpOut, rfVars, bathVars, geoVars, execVars, genVars, exVars, fesVars, lateVars>>

InterpolateAtAct ==
    /\ itpOut = NULL
    /\ itpOut' = InterpolateAt(itpGrid, itpQuery.x, itpQuery.y)
    /\ UNCHANGED <<itpGrid, itpCell, itpQuery, itpCellOut, rfVars, bathVars, geoVars, execVars, genVars, exVars, fesVars, lateVars>>

NextInterp == BilinearInterpolateAct \/ InterpolateAtAct
SpecInterp == InitInterp /\ [][NextInterp]_vars

CellDone == itpCellOut # NULL
GridDone == itpOut # NULL
ValidCell == RLess(itpCell.X0, itpCell.X1) /\ RLess(itpCell.Y0, itpCell.Y1)
Returned(out, value) == out.err = NoErr /\ out.value = value
Quarter(a, b, c, d) == RDiv(RAdd(RAdd(a, b), RAdd(c, d)), R(4))

\* C14: BilinearInterpolate at each of the four corners of a valid cell returns
\* that corner's value exactly and at the cell centre returns the arithmetic
\* mean of the four corner values; Grid2D.InterpolateAt at any node of a valid
\* grid returns the value stored for that node.
C14_CornersCentreNodes ==
    /\ (CellDone /\ ValidCell) =>
          LET c == itpCell
              x == itpQuery.x
              y == itpQuery.y
              xm == RDiv(RAdd(c.X0, c.X1), R(2))
              ym == RDiv(RAdd(c.Y0, c.Y1), R(2))
          IN  /\ (x = c.X0 /\ y = c.Y0) => Returned(itpCellOut, c.V00)
              /\ (x = c.X1 /\ y = c.Y0) => Returned(itpCellOut, c.V10)
              /\ (x = c.X0 /\ y = c.Y1) => Returned(itpCellOut, c.V01)
              /\ (x = c.X1 /\ y = c.Y1) => Returned(itpCellOut, c.V11)
              /\ (x = xm /\ y = ym) =>
                     Returned(itpCellOut, Quarter(c.V00, c.V10, c.V01, c.V11))
    /\ (GridDone /\ Grid2DValidate(itpGrid) = NoErr) =>
          \A i \in 1..Len(itpGrid.Y), j \in 1..Len(itpGrid.X) :
              (itpQuery.x = itpGrid.X[j] /\ itpQuery.y = itpGrid.Y[i]) =>
                  Returned(itpOut, itpGrid.Values[i][j])

\* C14 witness: the point (2, 3) is the corner (X1, Y1) of the cell and the
\* interior node (X[2], Y[2]) of a valid 3x3 grid; that node holds 1, its
\* neighbours hold 0, and both calls returned 1.
C14_Witness ==
    /\ CellDone /\ GridDone /\ ValidCell
    /\ Grid2DValidate(itpGrid) = NoErr
    /\ Len(itpGrid.X) = 3 /\ Len(itpGrid.Y) = 3
    /\ itpQuery = [x |-> itpGrid.X[2], y |-> itpGrid.Y[2]]
    /\ itpQuery = [x |-> itpCell.X1, y |-> itpCell.Y1]
    /\ itpGrid.Values[2][2] = R(1) /\ itpGrid.Values[1][2] = R(0)
    /\ itpGrid.Values[2][1] = R(0) /\ itpGrid.Values[2][3] = R(0)
    /\ itpCellOut = [err |-> NoErr, value |-> R(1)]
    /\ itpOut = [err |-> NoErr, value |-> R(1)]

\* The point lies in [X[0], X[last]] x [Y[0], Y[last]] (axes of length >= 1).
InsideRange(g, x, y) ==
    /\ RLeqWide(g.X[1], x) /\ RLeqWide(x, g.X[Len(g.X)])
    /\ RLeqWide(g.Y[1], y) /\ RLeqWide(y, g.Y[Len(g.Y)])

\* C15: Grid2D.InterpolateAt returns an error exactly when the grid fails
\* validation or the point lies outside [X[0], X[last]] x [Y[0], Y[last]];
\* everywhere else, the boundary included, it returns a value.
C15_ErrorIffInvalidOrOutside ==
    GridDone =>
        ((itpOut.err # NoErr) <=>
            (\/ Grid2DValidate(itpGrid) # NoErr
             \/ ~InsideRange(itpGrid, itpQuery.x, itpQuery.y)))

\* C15 witness: the point on the upper corner (X[last], Y[last]) of a valid
\* grid was answered with the value of that node.
C15_Witness ==
    /\ GridDone
    /\ Grid2DValidate(itpGrid) = NoErr
    /\ itpQuery.x = itpGrid.X[Len(itpGrid.X)]
    /\ itpQuery.y = itpGrid.Y[Len(itpGrid.Y)]
    /\ itpOut.err = NoErr
    /\ itpOut.value = itpGrid.Values[Len(itpGrid.Y)][Len(itpGrid.X)]
    /\ itpOut.value = R(1)


(***************************************************************************)
(* Specification SpecRefine: one RefineExtremum call on three consecutive  *)
(* samples.  This unit counts time in milliseconds, fine enough for sample *)
(* spacings that differ by less than the 1e-6 hour tolerance (3.6 ms).     *)
(***************************************************************************)
MaxRefineHeight == 4    \* sample heights range over 0..MaxRefineHeight

Millisecond == 1
RfHour == 3600 * 1000 * Millisecond
RfSpacings == {60 * 1000 * Millisecond, 120 * 1000 * Millisecond}   \* peak - before
RfSkews == {-4, -3, -1, 0, 1, 3, 4}      \* (after - peak) - (peak - before), in ms

InitRefine ==
    /\ \E d \in RfSpacings, skew \in RfSkews :
       \E h0 \in 0..MaxRefineHeight, h1 \in 0..MaxRefineHeight, h2 \in 0..MaxRefineHeight :
          rfIn = << [Time |-> 0, HeightM |-> R(h0)],
                    [Time |-> d, HeightM |-> R(h1)],
                    [Time |-> d + d + skew, HeightM |-> R(h2)] >>
    /\ rfOut = NULL
    /\ ExecIdle /\ GenIdle /\ ExIdle /\ FesIdle /\ ItpIdle /\ BathIdle /\ GeoIdle /\ LateIdle

RefineExtremumAct ==
    /\ rfOut = NULL
    /\ rfOut' = RefineExtremumAt(RfHour, rfIn[1], rfIn[2], rfIn[3])
    /\ UNCHANGED <<rfIn, itpVars, bathVars, geoVars, execVars, genVars, exVars, fesVars, lateVars>>

NextRefine == RefineExtremumAct
SpecRefine == InitRefine /\ [][NextRefine]_vars

RfDone == rfOut # NULL
RfDt1 == Rat(rfIn[2].Time - rfIn[1].Time, RfHour)
RfDt2 == Rat(rfIn[3].Time - rfIn[2].Time, RfHour)
\* The parabola through the three samples: curvature a, slope b, vertex offset.
RfA == RDiv(RAdd(RSub(rfIn[3].HeightM, RMul(R(2), rfIn[2].HeightM)), rfIn[1].HeightM),
            RMul(R(2), RMul(RfDt1, RfDt1)))
RfB == RDiv(RSub(rfIn[3].HeightM, rfIn[1].HeightM), RMul(R(2), RfDt1))
RfVertex == RDiv(RNeg(RfB), RMul(R(2), RfA))
\* The three cases in which the discrete sample is to be kept.
RfKeep ==
    \/ RLess(Rat(1, 1000000), RAbs(RSub(RfDt1, RfDt2)))
    \/ NegligibleCurvature(RfA)
    \/ RLess(RfDt1, RAbs(RfVertex))
RfKept == rfOut = <<rfIn[2].Time, rfIn[2].HeightM>>

\* C16 (as stated): RefineExtremum returns the discrete peak unchanged when the
\* two spacings differ by more than 1e-6 hours, the curvature is negligible or
\* the vertex offset exceeds one sample interval; in every other case the
\* refined time lies within [before.Time, after.Time].
C16_RefinedWithinWindow ==
    RfDone =>
        /\ RfKeep => RfKept
        /\ ~RfKeep => (rfIn[1].Time <= rfOut[1] /\ rfOut[1] <= rfIn[3].Time)

\* C16 (amended): the discrete peak is returned unchanged in the same three
\* cases; in every other case the refined time lies within one leading
\* interval (peak.Time - before.Time) of peak.Time, so it is never before
\* before.Time and passes after.Time by no more than the spacing tolerance of
\* 1e-6 hours.
C16_RefinedWithinOneInterval ==
    RfDone =>
        /\ RfKeep => RfKept
        /\ ~RfKeep =>
              LET d == rfIn[2].Time - rfIn[1].Time
              IN  /\ rfIn[2].Time - d <= rfOut[1]
                  /\ rfOut[1] <= rfIn[2].Time + d
                  /\ RLeqWide(Rat(rfOut[1] - rfIn[3].Time, RfHour), Rat(1, 1000000))

\* C16 witness: heights 0, 3, 4 put the vertex exactly one leading interval
\* after the middle sample; the trailing interval is 3 ms shorter, so the
\* refined time is 3 ms after after.Time.
C16_Witness ==
    /\ RfDone /\ ~RfKeep
    /\ rfIn[1].HeightM = R(0) /\ rfIn[2].HeightM = R(3) /\ rfIn[3].HeightM = R(4)
    /\ rfIn[3].Time - rfIn[2].Time = rfIn[2].Time - rfIn[1].Time - 3
    /\ rfOut[1] = rfIn[3].Time + 3


(***************************************************************************)
(* Longitude convention of the FES point lookup (checked under SpecFes).   *)
(***************************************************************************)
\* The longitude the lookup is to use on a file: wrapped into [0, 360) if the
\* file's axis reaches beyond 180 degrees, as given otherwise.
AxisReachesBeyond180(file) == RLess(R(180), file.lon[Len(file.lon)])
LookupLonFor(file, lon) ==
    IF AxisReachesBeyond180(file) THEN normalizeLon360(lon) ELSE lon
PhaseAt(file, lat, lon) ==
    interpolatePointFromNetCDF(file, DefaultConfig.PhaseVarName, lat, lon)
AmplitudeAt(file, lat, lon) ==
    interpolatePointFromNetCDF(file, DefaultConfig.AmplitudeVarName, lat, lon)

\* C17: the query longitude is wrapped into [0, 360) before the grid lookup if
\* and only if the file's longitude axis spans into [180, 360) and is used as
\* given otherwise: every file that holds the point at that longitude
\* contributes its constituent, with the phase interpolated there (so a
\* negative longitude is found on an axis stored as -180..180).
C17_WrapOnlyOnWrappedAxis ==
    FesDone =>
        \A i \in 1..Len(fesDir) :
            LET file == fesDir[i]
                lon  == LookupLonFor(file, fesQuery.lon)
                pha  == PhaseAt(file, fesQuery.lat, lon)
                amp  == AmplitudeAt(file, fesQuery.lat, lon)
            IN  (pha.err = NoErr /\ amp.err = NoErr) =>
                    \E k \in 1..Len(fesOut.params) :
                        /\ SourceFile(fesOut.params[k].Name) = file
                        /\ fesOut.params[k].PhaseDeg = pha.value


(***************************************************************************)
(* Windowed grid files shared by the geoid store and the bathymetry store. *)
(* A file is [var, lat, lon]: the name of its data variable and the names  *)
(* of its coordinate axes; the node values are a fixed function of the     *)
(* node's 0-based indices in the file.                                     *)
(***************************************************************************)
LatFine   == [i \in 1..7 |-> R(2 * (i - 1))]        \* 0, 2, ..., 12 degrees
LatCoarse == <<R(-10), R(4), R(20)>>
LonGlobal == [j \in 1..180 |-> R(2 * (j - 1))]      \* 0, 2, ..., 358 degrees
LonPair   == <<R(0), R(358)>>

latDataOf(file) == IF file.lat = "fine" THEN LatFine ELSE LatCoarse
lonDataOf(file) == IF file.lon = "global" THEN LonGlobal ELSE LonPair

\* The data variable at row i (latitude), column j (longitude), 0-based.
\* Elevations are negative below sea level, 0 at sea level, positive on land.
DataAt(file, i, j) ==
    IF file.var = "elevation"
    THEN LET k == (i + j) % 4
         IN  IF k = 0 THEN R(5) ELSE IF k = 1 THEN R(0) ELSE R(-(10 * (i + 1) + (j % 7)))
    ELSE IF file.var = "mean_sea_surf_sol2" THEN R(40 + i + (j % 3))
    ELSE R(38 + (i % 2) + (j % 2))

\* The binary search of findNearestIndex; left and right are 0-based.
RECURSIVE NearestLoop(_, _, _, _)
NearestLoop(arr, target, left, right) ==
    IF left < right
    THEN LET mid == (left + right) \div 2
         IN  IF RLess(arr[mid + 1], target)
             THEN NearestLoop(arr, target, mid + 1, right)
             ELSE NearestLoop(arr, target, left, mid)
    ELSE left

\* findNearestIndex (the same function in geoid.go and bathymetry/local.go):
\* the 0-based index of the value closest to target in a sorted array.
findNearestIndex(arr, target) ==
    IF Len(arr) = 0 THEN 0
    ELSE LET left == NearestLoop(arr, target, 0, Len(arr) - 1)
         IN  IF left > 0 /\ RLess(RAbs(RSub(arr[left], target)),
                                   RAbs(RSub(arr[left + 1], target)))
             THEN left - 1
             ELSE left

clamp(value, minVal, maxVal) ==
    IF value < minVal THEN minVal ELSE IF value > maxVal THEN maxVal ELSE value

Margin == R(2)      \* const margin = 2.0 degrees

\* The Grid2D cut out of a file: rows [latStart, latEnd), columns [lonStart, lonEnd).
SubsetGrid(file, latStart, latEnd, lonStart, lonEnd) ==
    [X |-> SubSeq(lonDataOf(file), lonStart + 1, lonEnd),
     Y |-> SubSeq(latDataOf(file), latStart + 1, latEnd),
     Values |-> [r \in 1..(latEnd - latStart) |-> [c \in 1..(lonEnd - lonStart) |->
                    DataAt(file, latStart + r - 1, lonStart + c - 1)]]]

\* The index window both loaders derive from the two nearest indices a and b
\* on an axis of n points: the pair is put in order, the start is clamped to
\* [0, n-2] and the exclusive end to [start+2, n].
IndexWindow(n, a, b) ==
    LET start == clamp(IF a > b THEN b ELSE a, 0, n - 2)
    IN  [start |-> start, end |-> clamp((IF a > b THEN a ELSE b) + 1, start + 2, n)]

\* The grid read for a latitude window and a longitude window.
WindowOf(file, latW, lonW) == SubsetGrid(file, latW.start, latW.end, lonW.start, lonW.end)

(***************************************************************************)
(* internal/adapter/geoid/geoid.go                                         *)
(***************************************************************************)
\* The end of Store.loadGrid: s.grid is assigned before it is validated.
gridAssigned(grid, opens) ==
    IF ~opens THEN [err |-> "failed to open NetCDF file", grid |-> NULL]
    ELSE IF Grid2DValidate(grid) # NoErr THEN [err |-> "invalid grid", grid |-> grid]
    ELSE [err |-> NoErr, grid |-> grid]

\* Store.loadGrid: [err, grid], grid being what s.grid holds afterwards when
\* it was nil before.  opens says whether netcdf.OpenFile succeeds.
loadGrid(file, targetLat, targetLon, opens) ==
    gridAssigned(
        WindowOf(file,
                 IndexWindow(Len(latDataOf(file)),
                             findNearestIndex(latDataOf(file), RSub(targetLat, Margin)),
                             findNearestIndex(latDataOf(file), RAdd(targetLat, Margin))),
                 IndexWindow(Len(lonDataOf(file)),
                             findNearestIndex(lonDataOf(file), RSub(targetLon, Margin)),
                             findNearestIndex(lonDataOf(file), RAdd(targetLon, Margin)))),
        opens)

\* The interpolation that ends GetGeoidHeight, on the grid the store holds.
heightOn(held, at) ==
    IF at.err # NoErr
    THEN [err |-> "failed to interpolate geoid height", height |-> R(0), grid |-> held]
    ELSE [err |-> NoErr, height |-> at.value, grid |-> held]

\* GetGeoidHeight after its "if s.grid == nil" block, load being that block's
\* result.
heightAfterLoad(load, lat, lon) ==
    IF load.err # NoErr
    THEN [err |-> "failed to load geoid grid", height |-> R(0), grid |-> load.grid]
    ELSE heightOn(load.grid, InterpolateAt(load.grid, lon, lat))

\* Store.GetGeoidHeight on a store whose s.grid is grid: [err, height, grid],
\* grid being s.grid afterwards.  The whole call runs under s.mu.Lock().
GetGeoidHeight(grid, file, lat, lon, opens) ==
    heightAfterLoad(IF grid = NULL THEN loadGrid(file, lat, lon, opens)
                    ELSE [err |-> NoErr, grid |-> grid],
                    lat, lon)

(***************************************************************************)
(* Specification SpecGeoid: any sequence of GetGeoidHeight calls on one    *)
(* geoid store (the calls are serialised by the store's mutex).            *)
(***************************************************************************)
GeoidFiles == {[var |-> "geoid", lat |-> "fine", lon |-> "global"]}
GeoLats == {R(1), R(3), R(6), R(9)}
GeoLons == {Rat(3, 2), R(175), R(177), R(183)}

InitGeoid ==
    /\ geoidPath \in GeoidFiles
    /\ geoidGrid = NULL /\ geoQuery = NULL /\ geoOut = NULL
    /\ ExecIdle /\ GenIdle /\ ExIdle /\ FesIdle /\ ItpIdle /\ RfIdle /\ BathIdle /\ LateIdle

geoidReturns(lat, lon, res) ==
    /\ geoQuery' = [lat |-> lat, lon |-> lon]
    /\ geoOut' = [err |-> res.err, height |-> res.height]
    /\ geoidGrid' = res.grid
    /\ UNCHANGED <<geoidPath, itpVars, rfVars, bathVars, execVars, genVars, exVars, fesVars, lateVars>>

GetGeoidHeightAct ==
    \E lat \in GeoLats, lon \in GeoLons, opens \in BOOLEAN :
        geoidReturns(lat, lon, GetGeoidHeight(geoidGrid, geoidPath, lat, lon, opens))

NextGeoid == GetGeoidHeightAct
SpecGeoid == InitGeoid /\ [][NextGeoid]_vars

\* The whole file as one grid, and the height it gives at a point.
WholeFile(file) == SubsetGrid(file, 0, Len(latDataOf(file)), 0, Len(lonDataOf(file)))
InCoverage(file, lat, lon) == InsideRange(WholeFile(file), lon, lat)

\* C18: the geoid sampler reloads its cached window when a query falls outside
\* it: after any sequence of GetGeoidHeight calls, every query inside the geoid
\* file's coverage (whose file could be read) is interpolated on a window that
\* contains the point and returns the geoid height of that point.
C18_ReloadsOutsideWindow ==
    (geoOut # NULL /\ InCoverage(geoidPath, geoQuery.lat, geoQuery.lon)
                   /\ geoOut.err # "failed to load geoid grid") =>
        /\ geoOut.err = NoErr
        /\ InsideRange(geoidGrid, geoQuery.lon, geoQuery.lat)
        /\ geoOut.height = InterpolateAt(WholeFile(geoidPath), geoQuery.lon, geoQuery.lat).value


(***************************************************************************)
(* internal/adapter/store/bathymetry/local.go                              *)
(***************************************************************************)
lonAxisRequiresWrap(lons) ==
    IF Len(lons) = 0 THEN FALSE
    ELSE LET first  == lons[1]
             last   == lons[Len(lons)]
             minVal == IF RLess(last, first) THEN last ELSE first
             maxVal == IF RLess(last, first) THEN first ELSE last
         IN  RLeq(R(0), minVal) /\ RLess(R(180), maxVal)

\* bathymetry's normalizeLon360 is the same function as the FES store's.
normalizeLonForAxis(lons, lon) ==
    IF lonAxisRequiresWrap(lons) THEN normalizeLon360(lon) ELSE lon

boundsFromGrid(grid) ==
    IF grid = NULL THEN NULL
    ELSE IF Len(grid.X) = 0 \/ Len(grid.Y) = 0 THEN NULL
    ELSE LET x0 == grid.X[1]
             x1 == grid.X[Len(grid.X)]
             y0 == grid.Y[1]
             y1 == grid.Y[Len(grid.Y)]
         IN  [minLat |-> IF RLess(y1, y0) THEN y1 ELSE y0,
              maxLat |-> IF RLess(y1, y0) THEN y0 ELSE y1,
              minLon |-> IF RLess(x1, x0) THEN x1 ELSE x0,
              maxLon |-> IF RLess(x1, x0) THEN x0 ELSE x1,
              lonWrap360 |-> lonAxisRequiresWrap(grid.X)]

\* Mutant of contains: the longitude is left out of the test.
contains_LatOnly(b, lat, lon) ==
    IF b = NULL THEN FALSE
    ELSE RLeq(b.minLat, lat) /\ RLeq(lat, b.maxLat)

\* gridBounds.contains
contains(b, lat, lon) ==
    IF b = NULL THEN FALSE
    ELSE LET lonCheck == IF b.lonWrap360 THEN normalizeLon360(lon) ELSE lon
         IN  /\ RLeq(b.minLat, lat) /\ RLeq(lat, b.maxLat)
             /\ RLeq(b.minLon, lonCheck) /\ RLeq(lonCheck, b.maxLon)

\* The end of loadNetCDFGridSubset: the grid is validated, then returned.
gridReturned(grid, opens) ==
    IF ~opens THEN [err |-> "failed to open NetCDF file", grid |-> NULL]
    ELSE IF Grid2DValidate(grid) # NoErr THEN [err |-> "invalid grid", grid |-> NULL]
    ELSE [err |-> NoErr, grid |-> grid]

\* The longitude window of loadNetCDFGridSubset from the nearest indices of
\* lon-margin (lonA), lon+margin (lonB) and lon (lonTargetIdx).
lonIndexWindow(n, lonA, lonB, lonTargetIdx) ==
    IndexWindow(n,
                IF lonTargetIdx < lonA THEN lonTargetIdx ELSE lonA,
                IF lonTargetIdx > (IF lonA = lonB THEN clamp(lonB + 1, 0, n - 1) ELSE lonB)
                THEN lonTargetIdx
                ELSE (IF lonA = lonB THEN clamp(lonB + 1, 0, n - 1) ELSE lonB))

\* loadNetCDFGridSubset: [err, grid].  opens says whether netcdf.OpenFile
\* succeeds; the files of the model have their coordinate and data variables
\* in [lat, lon] order.
loadNetCDFGridSubset(file, targetLat, targetLon, margin, opens) ==
    gridReturned(
        IF RLess(R(0), margin)
        THEN WindowOf(file,
                 IndexWindow(Len(latDataOf(file)),
                             findNearestIndex(latDataOf(file), RSub(targetLat, margin)),
                             findNearestIndex(latDataOf(file), RAdd(targetLat, margin))),
                 lonIndexWindow(Len(lonDataOf(file)),
                     findNearestIndex(lonDataOf(file),
                         normalizeLonForAxis(lonDataOf(file), RSub(targetLon, margin))),
                     findNearestIndex(lonDataOf(file),
                         normalizeLonForAxis(lonDataOf(file), RAdd(targetLon, margin))),
                     findNearestIndex(lonDataOf(file),
                         normalizeLonForAxis(lonDataOf(file), targetLon))))
        ELSE SubsetGrid(file, 0, Len(latDataOf(file)), 0, Len(lonDataOf(file))),
        opens)

\* GetMetadata's check before loadMSSGrid / loadDepthGrid.
needsLoad(path, grid, bounds, lat, lon) ==
    path # NULL /\ (grid = NULL \/ ~contains(bounds, lat, lon))

\* s.mslGrid.InterpolateAt / s.depthGrid.InterpolateAt of GetMetadata.
sampleAt(grid, lat, lon) ==
    IF grid = NULL THEN ItpFailure("no grid")
    ELSE InterpolateAt(grid, normalizeLonForAxis(grid.X, lon), lat)

\* The metadata with the MSL part filled in.
withMSL(mslG, msl, corrected, geoidHeight) ==
    IF mslG = NULL
    THEN [DepthM |-> NULL, MSL |-> R(0), DatumName |-> "EGM2008",
          SourceName |-> "Local/GCS FUSE"]
    ELSE [DepthM |-> NULL,
          MSL |-> IF corrected THEN RSub(msl.value, geoidHeight) ELSE msl.value,
          DatumName |-> IF corrected THEN "EGM2008 (geoid-corrected)" ELSE "EGM2008",
          SourceName |-> "DTU21 MSS"]

\* Mutant of withDepth: an elevation of exactly zero is reported as a depth.
withDepth_ZeroIsDepth(meta, depthG, depth) ==
    IF depthG = NULL \/ depth.err # NoErr THEN meta
    ELSE [meta EXCEPT
            !.DepthM = IF RLeq(depth.value, R(0)) THEN Some(RNeg(depth.value)) ELSE NULL,
            !.SourceName = IF @ = "DTU21 MSS" THEN "GEBCO 2025 + DTU21 MSS"
                           ELSE "GEBCO 2025"]

\* The metadata with the depth part filled in.
withDepth(meta, depthG, depth) ==
    IF depthG = NULL \/ depth.err # NoErr THEN meta
    ELSE [meta EXCEPT
            !.DepthM = IF RLess(depth.value, R(0)) THEN Some(RNeg(depth.value)) ELSE NULL,
            !.SourceName = IF @ = "DTU21 MSS" THEN "GEBCO 2025 + DTU21 MSS"
                           ELSE "GEBCO 2025"]

\* Mutant of metadataFrom: a failed MSL interpolation is returned as an error.
metadataFrom_ReturnsErr(mslG, depthG, msl, depth, corrected, geoidHeight) ==
    IF mslG = NULL /\ depthG = NULL THEN [meta |-> NULL, err |-> NoErr]
    ELSE IF mslG # NULL /\ msl.err # NoErr
    THEN [meta |-> NULL, err |-> "failed to interpolate MSL"]
    ELSE [meta |-> withDepth(withMSL(mslG, msl, corrected, geoidHeight), depthG, depth),
          err |-> NoErr]

\* GetMetadata's result [meta, err] from the two interpolation results.
metadataFrom(mslG, depthG, msl, depth, corrected, geoidHeight) ==
    IF mslG = NULL /\ depthG = NULL THEN [meta |-> NULL, err |-> NoErr]
    ELSE IF mslG # NULL /\ msl.err # NoErr THEN [meta |-> NULL, err |-> NoErr]
    ELSE [meta |-> withDepth(withMSL(mslG, msl, corrected, geoidHeight), depthG, depth),
          err |-> NoErr]

\* The part of GetMetadata after the two loads (local.go:131-192): [meta, err]
\* from the grids in place.  corrected says that the geoid store is set and
\* its GetGeoidHeight(lat, lon) returned geoidHeight without error.
metadataOf(mslG, depthG, corrected, geoidHeight, lat, lon) ==
    metadataFrom(mslG, depthG, sampleAt(mslG, lat, lon), sampleAt(depthG, lat, lon),
                 corrected, geoidHeight)

\* Whether GetMetadata reaches its GetGeoidHeight call.
callsGeoid(mslG, geoidStore, lat, lon) ==
    /\ mslG # NULL
    /\ sampleAt(mslG, lat, lon).err = NoErr
    /\ geoidStore

\* Mutant of CanLock: Lock() does not wait for the current holder.
CanLock_NoExclusion(m) == TRUE

\* sync.RWMutex.Lock() proceeds when nobody holds the mutex.
CanLock(m) == m.writer = 0 /\ m.readers = {}

(***************************************************************************)
(* Specification SpecBathy: NumCallers goroutines call GetMetadata on one  *)
(* LocalStore again and again.  A call is the sequence of steps            *)
(*   Lock, CheckMSL [, SetMSLBounds], CheckDepth [, SetDepthBounds],       *)
(*   Interpolate, Unlock                                                   *)
(* where CheckX performs the test and, on a miss, loadNetCDFGridSubset and *)
(* the assignment s.xGrid = grid, and SetXBounds the assignment            *)
(* s.xBounds = boundsFromGrid(grid) that follows it.                       *)
(***************************************************************************)
NumCallers == 2
Callers == 1..NumCallers

BathLats == {R(1), R(4)}
BathLons == {Rat(3, 2), R(175), R(-178), R(535)}

GebcoFile(lat) == [var |-> "elevation", lat |-> lat, lon |-> "global"]
MssFile(lat)   == [var |-> "mean_sea_surf_sol2", lat |-> lat, lon |-> "global"]
BathGeoidFile  == [var |-> "geoid", lat |-> "fine", lon |-> "pair"]

IdleCall == [pc |-> "idle", lat |-> NULL, lon |-> NULL, grid |-> NULL,
             mslErr |-> FALSE, depthErr |-> FALSE, out |-> NULL]
FreeMutex == [writer |-> 0, readers |-> {}]

InitBathy ==
    /\ \E axis \in {"fine", "coarse"}, gebco \in BOOLEAN, mss \in BOOLEAN, geoidStore \in BOOLEAN :
          /\ geoidStore => mss
          /\ bathCfg = [gebcoPath  |-> IF gebco THEN GebcoFile(axis) ELSE NULL,
                        mssPath    |-> IF mss THEN MssFile(axis) ELSE NULL,
                        geoidStore |-> geoidStore]
          /\ geoidPath = IF geoidStore THEN BathGeoidFile ELSE NULL
    /\ mslGrid = NULL /\ mslBounds = NULL /\ depthGrid = NULL /\ depthBounds = NULL
    /\ mu = FreeMutex
    /\ bathCalls = [p \in Callers |-> IdleCall]
    /\ geoidGrid = NULL /\ geoQuery = NULL /\ geoOut = NULL
    /\ ExecIdle /\ GenIdle /\ ExIdle /\ FesIdle /\ ItpIdle /\ RfIdle /\ LateIdle

BathOthers == <<itpVars, rfVars, execVars, genVars, exVars, fesVars, lateVars, geoidPath, geoQuery, geoOut>>

\* s.mu.Lock() at the start of a call with the arguments (lat, lon).
Lock(p) ==
    /\ bathCalls[p].pc = "idle"
    /\ CanLock(mu)
    /\ mu' = [mu EXCEPT !.writer = p]
    /\ \E lat \in BathLats, lon \in BathLons :
          bathCalls' = [bathCalls EXCEPT ![p] = [IdleCall EXCEPT !.pc = "checkMSL",
                                                                 !.lat = lat, !.lon = lon]]
    /\ UNCHANGED <<bathCfg, mslGrid, mslBounds, depthGrid, depthBounds, geoidGrid, BathOthers>>

\* loadMSSGrid's outcome r: on an error the cache is left as it is, otherwise
\* s.mslGrid = grid.
mslLoaded(p, r) ==
    IF r.err # NoErr
    THEN /\ bathCalls' = [bathCalls EXCEPT ![p].pc = "checkDepth", ![p].mslErr = TRUE]
         /\ UNCHANGED mslGrid
    ELSE /\ mslGrid' = r.grid
         /\ bathCalls' = [bathCalls EXCEPT ![p].pc = "setMSLBounds", ![p].grid = r.grid]

CheckMSL(p) ==
    /\ bathCalls[p].pc = "checkMSL"
    /\ IF needsLoad(bathCfg.mssPath, mslGrid, mslBounds, bathCalls[p].lat, bathCalls[p].lon)
       THEN \E opens \in BOOLEAN :
               mslLoaded(p, loadNetCDFGridSubset(bathCfg.mssPath, bathCalls[p].lat,
                                                 bathCalls[p].lon, Margin, opens))
       ELSE /\ bathCalls' = [bathCalls EXCEPT ![p].pc = "checkDepth"]
            /\ UNCHANGED mslGrid
    /\ UNCHANGED <<bathCfg, mslBounds, depthGrid, depthBounds, mu, geoidGrid, BathOthers>>

SetMSLBounds(p) ==
    /\ bathCalls[p].pc = "setMSLBounds"
    /\ mslBounds' = boundsFromGrid(bathCalls[p].grid)
    /\ bathCalls' = [bathCalls EXCEPT ![p].pc = "checkDepth", ![p].grid = NULL]
    /\ UNCHANGED <<bathCfg, mslGrid, depthGrid, depthBounds, mu, geoidGrid, BathOthers>>

\* loadDepthGrid's outcome r.
depthLoaded(p, r) ==
    IF r.err # NoErr
    THEN /\ bathCalls' = [bathCalls EXCEPT ![p].pc = "interpolate", ![p].depthErr = TRUE]
         /\ UNCHANGED depthGrid
    ELSE /\ depthGrid' = r.grid
         /\ bathCalls' = [bathCalls EXCEPT ![p].pc = "setDepthBounds", ![p].grid = r.grid]

CheckDepth(p) ==
    /\ bathCalls[p].pc = "checkDepth"
    /\ IF needsLoad(bathCfg.gebcoPath, depthGrid, depthBounds, bathCalls[p].lat, bathCalls[p].lon)
       THEN \E opens \in BOOLEAN :
               depthLoaded(p, loadNetCDFGridSubset(bathCfg.gebcoPath, bathCalls[p].lat,
                                                   bathCalls[p].lon, Margin, opens))
       ELSE /\ bathCalls' = [bathCalls EXCEPT ![p].pc = "interpolate"]
            /\ UNCHANGED depthGrid
    /\ UNCHANGED <<bathCfg, mslGrid, mslBounds, depthBounds, mu, geoidGrid, BathOthers>>

SetDepthBounds(p) ==
    /\ bathCalls[p].pc = "setDepthBounds"
    /\ depthBounds' = boundsFromGrid(bathCalls[p].grid)
    /\ bathCalls' = [bathCalls EXCEPT ![p].pc = "interpolate", ![p].grid = NULL]
    /\ UNCHANGED <<bathCfg, mslGrid, mslBounds, depthGrid, mu, geoidGrid, BathOthers>>

\* The result of the call once the geoid store has answered g.
answered(p, g) ==
    /\ geoidGrid' = g.grid
    /\ bathCalls' = [bathCalls EXCEPT
           ![p].pc = "unlock",
           ![p].out = metadataOf(mslGrid, depthGrid, g.err = NoErr, g.height,
                                 bathCalls[p].lat, bathCalls[p].lon)]

\* local.go:131-192: the interpolation, with the nested GetGeoidHeight call.
Interpolate(p) ==
    /\ bathCalls[p].pc = "interpolate"
    /\ IF callsGeoid(mslGrid, bathCfg.geoidStore, bathCalls[p].lat, bathCalls[p].lon)
       THEN \E opens \in BOOLEAN :
               answered(p, GetGeoidHeight(geoidGrid, geoidPath, bathCalls[p].lat,
                                          bathCalls[p].lon, opens))
       ELSE answered(p, [err |-> "geoid not used", height |-> R(0), grid |-> geoidGrid])
    /\ UNCHANGED <<bathCfg, mslGrid, mslBounds, depthGrid, depthBounds, mu, BathOthers>>

\* The deferred s.mu.Unlock() and the return to the caller.
Unlock(p) ==
    /\ bathCalls[p].pc = "unlock"
    /\ mu' = [mu EXCEPT !.writer = IF @ = p THEN 0 ELSE @]
    /\ bathCalls' = [bathCalls EXCEPT ![p] = IdleCall]
    /\ UNCHANGED <<bathCfg, mslGrid, mslBounds, depthGrid, depthBounds, geoidGrid, BathOthers>>

NextBathy ==
    \E p \in Callers :
        \/ Lock(p)
        \/ CheckMSL(p)
        \/ SetMSLBounds(p)
        \/ CheckDepth(p)
        \/ SetDepthBounds(p)
        \/ Interpolate(p)
        \/ Unlock(p)
SpecBathy == InitBathy /\ [][NextBathy]_vars

(***************************************************************************)
(* Claims about GetMetadata, checked under SpecBathy.                      *)
(***************************************************************************)
\* A caller whose call has computed its return value (it still holds the lock).
HasReturn(p) == bathCalls[p].pc = "unlock" /\ bathCalls[p].out # NULL

\* C13: GetMetadata never returns a non-nil error: whatever failed in the call
\* (a grid load, an interpolation outside the window), the returned error is
\* nil, and the metadata is nil or lacks the field that failed.
C13_NeverReturnsError ==
    \A p \in Callers :
        HasReturn(p) =>
            /\ bathCalls[p].out.err = NoErr
            /\ (mslGrid # NULL /\ sampleAt(mslGrid, bathCalls[p].lat, bathCalls[p].lon).err # NoErr)
                  => bathCalls[p].out.meta = NULL
            /\ (bathCalls[p].out.meta # NULL /\ depthGrid # NULL
                  /\ sampleAt(depthGrid, bathCalls[p].lat, bathCalls[p].lon).err # NoErr)
                  => bathCalls[p].out.meta.DepthM = NULL

\* A call whose MSL load failed on a stale window that does not hold the query
\* point: the interpolation fails and the call returns (nil, nil).
C13_Witness ==
    \E p \in Callers :
        /\ HasReturn(p)
        /\ bathCalls[p].mslErr
        /\ mslGrid # NULL
        /\ sampleAt(mslGrid, bathCalls[p].lat, bathCalls[p].lon).err # NoErr
        /\ bathCalls[p].out = [meta |-> NULL, err |-> NoErr]

\* The query point lies inside the box spanned by a cached window (the
\* longitude taken as the window's axis stores it).
InCachedWindow(grid, lat, lon) ==
    /\ grid # NULL
    /\ InsideRange(grid, normalizeLonForAxis(grid.X, lon), lat)

\* What one step of caller p must satisfy for the window cached from path in
\* grid / bounds, the step testing that window leading from pc to hit, to
\* loaded or (failed load) to hit with the error flag raised.
StepKeepsWindowRule(p, path, grid, gridNext, bounds, boundsNext, pc, loaded, hit, failed) ==
    LET c == bathCalls[p]
        d == bathCalls'[p]
        attempted == d.pc = loaded \/ failed
    IN  /\ (c.pc = pc /\ d.pc # pc) =>
              /\ attempted <=> (path # NULL /\ ~InCachedWindow(grid, c.lat, c.lon))
              /\ ~attempted => (gridNext = grid /\ boundsNext = bounds /\ d.pc = hit)
              /\ d.pc = loaded =>
                    gridNext = loadNetCDFGridSubset(path, c.lat, c.lon, Margin, TRUE).grid
              /\ (attempted /\ d.pc # loaded) => (gridNext = grid /\ boundsNext = bounds)
        /\ (c.pc = loaded /\ d.pc # loaded) =>
              boundsNext = boundsFromGrid(gridNext) /\ gridNext = grid

\* The answer computed by caller p's interpolation step takes nothing from a
\* window whose reload failed.
StepAnswersFromOwnWindow(p) ==
    LET c == bathCalls[p]
        out == bathCalls'[p].out
    IN  (c.pc = "interpolate" /\ bathCalls'[p].pc = "unlock" /\ out.meta # NULL) =>
            /\ c.mslErr => out.meta.SourceName \in {"GEBCO 2025", "Local/GCS FUSE"}
            /\ c.depthErr => out.meta.DepthM = NULL
                             /\ out.meta.SourceName \in {"DTU21 MSS", "Local/GCS FUSE"}
            /\ out.meta.SourceName \in {"DTU21 MSS", "GEBCO 2025 + DTU21 MSS"}
                  => InCachedWindow(mslGrid, c.lat, c.lon)
            /\ out.meta.SourceName \in {"GEBCO 2025", "GEBCO 2025 + DTU21 MSS"}
                  => InCachedWindow(depthGrid, c.lat, c.lon)

\* C11: over any sequence of GetMetadata calls a configured window (MSL or
\* depth) is reloaded if and only if none is cached or the query lies outside
\* the cached box; a query inside the box leaves grid and bounds unchanged; a
\* query outside it gets the window loaded around that query, and when that
\* load fails nothing of the stale window enters the answer.
C11_ReloadIffOutsideCachedBox ==
    [][\A p \in Callers :
          /\ StepKeepsWindowRule(p, bathCfg.mssPath, mslGrid, mslGrid', mslBounds, mslBounds',
                                 "checkMSL", "setMSLBounds", "checkDepth",
                                 bathCalls'[p].mslErr)
          /\ StepKeepsWindowRule(p, bathCfg.gebcoPath, depthGrid, depthGrid', depthBounds,
                                 depthBounds', "checkDepth", "setDepthBounds", "interpolate",
                                 bathCalls'[p].depthErr)
          /\ StepAnswersFromOwnWindow(p)]_vars

\* A caller has just replaced a cached depth window that did not hold its
\* query (the old bounds are still in place) after its MSL check found the
\* query inside the cached MSL window.
C11_Witness ==
    \E p \in Callers :
        /\ bathCalls[p].pc = "setDepthBounds"
        /\ depthBounds # NULL
        /\ ~contains(depthBounds, bathCalls[p].lat, bathCalls[p].lon)
        /\ InCachedWindow(depthGrid, bathCalls[p].lat, bathCalls[p].lon)
        /\ ~bathCalls[p].mslErr
        /\ mslBounds = boundsFromGrid(mslGrid)
        /\ contains(mslBounds, bathCalls[p].lat, bathCalls[p].lon)

\* The steps of a call that come after its MSL test and after its depth test.
AfterMSLCheck   == {"setMSLBounds", "checkDepth", "setDepthBounds", "interpolate"}
AfterDepthCheck == {"setDepthBounds", "interpolate"}

\* Each cached grid is paired with the box of that same grid, except inside
\* the reload that is replacing it (between its two assignments, which no
\* other caller can observe); at most one caller is inside the sampler.
CachePaired ==
    /\ (\A p \in Callers : bathCalls[p].pc # "setMSLBounds")
          => mslBounds = boundsFromGrid(mslGrid)
    /\ (\A p \in Callers : bathCalls[p].pc # "setDepthBounds")
          => depthBounds = boundsFromGrid(depthGrid)
    /\ \A p \in Callers :
          bathCalls[p].pc = "setMSLBounds" => mslGrid = bathCalls[p].grid
    /\ \A p \in Callers :
          bathCalls[p].pc = "setDepthBounds" => depthGrid = bathCalls[p].grid
    /\ \A p, q \in Callers : (bathCalls[p].pc # "idle" /\ bathCalls[q].pc # "idle") => p = q

\* No step, of any caller, changes a window between the moment a call has
\* tested or reloaded it and the moment that call has interpolated on it.
WindowsStayInPlace ==
    \A p \in Callers :
        /\ bathCalls[p].pc \in AfterMSLCheck => mslGrid' = mslGrid
        /\ bathCalls[p].pc \in AfterDepthCheck => depthGrid' = depthGrid
        /\ bathCalls[p].pc \in {"checkDepth", "setDepthBounds", "interpolate"}
              => mslBounds' = mslBounds
        /\ bathCalls[p].pc = "interpolate" => depthBounds' = depthBounds

\* C12: under any interleaving of concurrent GetMetadata calls the cache is
\* never corrupted: each cached grid is paired with the bounding box computed
\* from that same grid, and every call interpolates on the window that its own
\* bounds check or reload left in place.
C12_CacheNeverCorrupted == []CachePaired /\ [][WindowsStayInPlace]_vars

\* A caller is in the middle of replacing a cached MSL window that missed its
\* query while another caller is kept waiting at the lock.
C12_Witness ==
    \E p, q \in Callers :
        /\ p # q
        /\ bathCalls[p].pc = "setMSLBounds"
        /\ mslBounds # NULL
        /\ ~contains(mslBounds, bathCalls[p].lat, bathCalls[p].lon)
        /\ mslBounds # boundsFromGrid(mslGrid)
        /\ bathCalls[q].pc = "idle"
        /\ ~CanLock(mu)

\* The query of caller p falls inside every cached box the store is
\* configured for (the call will not reload anything).
HitsCache(p) ==
    /\ bathCfg.mssPath # NULL \/ bathCfg.gebcoPath # NULL
    /\ bathCfg.mssPath # NULL =>
          (mslGrid # NULL /\ contains(mslBounds, bathCalls[p].lat, bathCalls[p].lon))
    /\ bathCfg.gebcoPath # NULL =>
          (depthGrid # NULL /\ contains(depthBounds, bathCalls[p].lat, bathCalls[p].lon))

\* C19: a GetMetadata call whose query falls inside the cached bounding boxes
\* holds the store lock only in read (shared) mode; the write (exclusive) lock
\* is held only by a call that reloads.
C19_HitsTakeReadLock ==
    \A p \in Callers :
        (bathCalls[p].pc = "checkMSL" /\ HitsCache(p)) =>
            (p \in mu.readers /\ mu.writer # p)

\* The target of a load lies within the file's latitude range and, once the
\* longitude is normalised for the file's axis, within its longitude range.
InFileRange(file, lat, lon) ==
    /\ RLeq(latDataOf(file)[1], lat)
    /\ RLeq(lat, latDataOf(file)[Len(latDataOf(file))])
    /\ RLeq(lonDataOf(file)[1], normalizeLonForAxis(lonDataOf(file), lon))
    /\ RLeq(normalizeLonForAxis(lonDataOf(file), lon), lonDataOf(file)[Len(lonDataOf(file))])

\* The window a successful load has just returned to caller p holds p's query.
LoadedWindowHolds(p) ==
    /\ contains(boundsFromGrid(bathCalls[p].grid), bathCalls[p].lat, bathCalls[p].lon)
    /\ sampleAt(bathCalls[p].grid, bathCalls[p].lat, bathCalls[p].lon).err = NoErr

\* C20: whenever loadNetCDFGridSubset succeeds for a target within the file's
\* latitude and longitude axis ranges, the bounding box of the returned window
\* contains the target (a repeated query is a cache hit) and interpolation on
\* the window does not fail.
C20_LoadedWindowHoldsTarget ==
    \A p \in Callers :
        /\ (bathCalls[p].pc = "setMSLBounds"
              /\ InFileRange(bathCfg.mssPath, bathCalls[p].lat, bathCalls[p].lon))
              => LoadedWindowHolds(p)
        /\ (bathCalls[p].pc = "setDepthBounds"
              /\ InFileRange(bathCfg.gebcoPath, bathCalls[p].lat, bathCalls[p].lon))
              => LoadedWindowHolds(p)

\* What the cached depth window gives at caller p's query, and likewise the
\* cached mean-sea-surface window.
DepthSample(p) == sampleAt(depthGrid, bathCalls[p].lat, bathCalls[p].lon)
MSLSample(p)   == sampleAt(mslGrid, bathCalls[p].lat, bathCalls[p].lon)

\* C21: the two grids are independently optional: whenever the depth window
\* covers the query, the call reports the depth of the point (none for an
\* elevation at or above zero) whether or not an MSL value can be obtained, and
\* whenever the mean-sea-surface window covers it, the call reports the MSL
\* whether or not a depth can be obtained.
C21_GridsIndependentlyOptional ==
    \A p \in Callers :
        HasReturn(p) =>
            /\ DepthSample(p).err = NoErr =>
                  /\ bathCalls[p].out.meta # NULL
                  /\ bathCalls[p].out.meta.DepthM =
                        IF RLess(DepthSample(p).value, R(0))
                        THEN Some(RNeg(DepthSample(p).value)) ELSE NULL
            /\ MSLSample(p).err = NoErr =>
                  /\ bathCalls[p].out.meta # NULL
                  /\ bathCalls[p].out.meta.SourceName \in {"DTU21 MSS", "GEBCO 2025 + DTU21 MSS"}

\* C22: in every metadata record GetMetadata returns, the depth is absent or
\* strictly positive and equal to the negated interpolated elevation; a point
\* whose interpolated elevation is zero or positive is never given a depth.
C22_DepthAbsentOrPositive ==
    \A p \in Callers :
        (HasReturn(p) /\ bathCalls[p].out.meta # NULL) =>
            /\ bathCalls[p].out.meta.DepthM # NULL =>
                  /\ DepthSample(p).err = NoErr
                  /\ RLess(R(0), bathCalls[p].out.meta.DepthM[1])
                  /\ bathCalls[p].out.meta.DepthM[1] = RNeg(DepthSample(p).value)
            /\ (DepthSample(p).err = NoErr /\ RLeq(R(0), DepthSample(p).value))
                  => bathCalls[p].out.meta.DepthM = NULL

\* A record returned for a point whose interpolated elevation is exactly zero:
\* it names GEBCO as a source and carries no depth.
C22_Witness ==
    \E p \in Callers :
        /\ HasReturn(p)
        /\ bathCalls[p].out.meta # NULL
        /\ DepthSample(p).err = NoErr
        /\ DepthSample(p).value = R(0)
        /\ bathCalls[p].out.meta.DepthM = NULL
        /\ bathCalls[p].out.meta.SourceName \in {"GEBCO 2025", "GEBCO 2025 + DTU21 MSS"}

(***************************************************************************)
(* Claims about the water depth Execute reports (checked under SpecExec).  *)
(***************************************************************************)
\* The tidal deviation from mean sea level at time t: the synthesis without
\* its MSL term.
DeviationAt(t, params) == CalculateTideHeight(t, [params EXCEPT !.MSL = R(0)])

\* The water depth that counts the mean sea level once.
DepthOnce(seabed, msl, deviation) == roundToDecimal(RAdd(RAdd(seabed, msl), deviation))

\* Every point of the response list carries the depth that levels[i] gives.
DepthsCountMSLOnce(points, levels, seabed, params) ==
    \A i \in 1..Len(points) :
        points[i].DepthM # NULL =>
            points[i].DepthM =
                DepthOnce(seabed, params.MSL, RSub(levels[i].HeightM, params.MSL))

\* C23: for every prediction point and extremum that carries a depth, the
\* reported water depth equals the seabed depth plus the mean sea level (with
\* any datum offset folded in) plus the tidal deviation from mean sea level at
\* that instant: the mean-sea-level term is counted exactly once.
C23_MSLCountedOnce ==
    (ExecSucceeded /\ execOut.resp.SeabedDepth # NULL) =>
        LET params == execOut.params
            levels == GeneratePredictions(execReq.Start, execReq.End, execReq.Interval, params)
            extrema == RefineExtrema(levels, FindExtrema(levels))
            seabed == execOut.resp.SeabedDepth
        IN  /\ \A i \in 1..Len(levels) :
                  levels[i].HeightM = RAdd(params.MSL, DeviationAt(levels[i].Time, params))
            /\ DepthsCountMSLOnce(execOut.resp.Predictions, levels, seabed, params)
            /\ DepthsCountMSLOnce(execOut.resp.Extrema.Highs, extrema.Highs, seabed, params)
            /\ DepthsCountMSLOnce(execOut.resp.Extrema.Lows, extrema.Lows, seabed, params)

(***************************************************************************)
(* internal/domain/nodal.go, internal/domain/nodal_coeffs.go               *)
(*                                                                         *)
(* GetFactors is modelled from the astronomical arguments on: args holds   *)
(* the node angle N in whole degrees and the sines and cosines of I and nu *)
(* that the closed-form formulas use.  The node angles of the model are    *)
(* multiples of 180 degrees, where sin and cos of k*N are -1, 0 or 1 and   *)
(* the square root and arc tangent of the nonlinear form are exact.  A     *)
(* coefficient map is the sequence of its values by key k = 1, 2, ...      *)
(* (0 for a key the map lacks).                                            *)
(***************************************************************************)
CosDeg(d) == IF d % 360 = 0 THEN 1 ELSE IF d % 360 = 180 THEN -1 ELSE 0
SinDeg(d) == IF d % 360 = 90 THEN 1 ELSE IF d % 360 = 270 THEN -1 ELSE 0

\* base + sum_k cosC[k]*cos(k*N) + sum_k sinC[k]*sin(k*N)
RECURSIVE SeriesFrom(_, _, _, _, _)
SeriesFrom(acc, cosC, sinC, N, k) ==
    IF k > Len(cosC) /\ k > Len(sinC) THEN acc
    ELSE SeriesFrom(RAdd(RAdd(acc,
                              IF k <= Len(cosC) THEN RMul(cosC[k], R(CosDeg(k * N))) ELSE R(0)),
                         IF k <= Len(sinC) THEN RMul(sinC[k], R(SinDeg(k * N))) ELSE R(0)),
                    cosC, sinC, N, k + 1)

\* NodalCoeff.EvalF
EvalF(c, Ndeg) ==
    IF SeriesFrom(c.F0, c.FCos, c.FSin, Ndeg, 1) = R(0) THEN R(1)
    ELSE SeriesFrom(c.F0, c.FCos, c.FSin, Ndeg, 1)

\* NodalCoeff.EvalU
EvalU(c, Ndeg) == SeriesFrom(c.U0, c.UCos, c.USin, Ndeg, 1)

\* f = sqrt(term1^2 + term2^2), u = atan2(term1, term2) in degrees; exact
\* when term1 or term2 is 0.
PolarOf(term1, term2) == [f |-> Hypot(term2, term1), u |-> Atan2Deg(term1, term2)]

\* NodalCoeff.EvalNonlinear: [ok, f, u]
EvalNonlinear(c, Ndeg) ==
    IF c.Nonlinear = NULL THEN [ok |-> FALSE, f |-> R(0), u |-> R(0)]
    ELSE [ok |-> TRUE,
          f  |-> PolarOf(SeriesFrom(R(0), <<>>, c.Nonlinear.Term1Sin, Ndeg, 1),
                         SeriesFrom(c.Nonlinear.Term2Const, c.Nonlinear.Term2Cos, <<>>, Ndeg, 1)).f,
          u  |-> PolarOf(SeriesFrom(R(0), <<>>, c.Nonlinear.Term1Sin, Ndeg, 1),
                         SeriesFrom(c.Nonlinear.Term2Const, c.Nonlinear.Term2Cos, <<>>, Ndeg, 1)).u]

\* One hundred-thousandth, the unit of the built-in coefficients.
E5(n) == Rat(n, 100000)

builtInNonlinearCoeffs ==
    [M2 |-> [term1Sin |-> <<E5(-3731), E5(52)>>, term2Const |-> R(1),
             term2Cos |-> <<E5(-3731), E5(52)>>],
     S2 |-> [term1Sin |-> <<E5(225)>>, term2Const |-> R(1), term2Cos |-> <<E5(225)>>],
     N2 |-> [term1Sin |-> <<E5(-3731), E5(52)>>, term2Const |-> R(1),
             term2Cos |-> <<E5(-3731), E5(52)>>],
     K2 |-> [term1Sin |-> <<E5(-31080), E5(-3240)>>, term2Const |-> R(1),
             term2Cos |-> <<E5(28520), E5(3240)>>],
     K1 |-> [term1Sin |-> <<E5(-15540), E5(290)>>, term2Const |-> R(1),
             term2Cos |-> <<E5(11580), E5(-290)>>],
     O1 |-> [term1Sin |-> <<E5(18900), E5(-580)>>, term2Const |-> R(1),
             term2Cos |-> <<E5(18900), E5(-580)>>],
     P1 |-> [term1Sin |-> <<E5(-1120)>>, term2Const |-> R(1), term2Cos |-> <<E5(-1120)>>],
     Q1 |-> [term1Sin |-> <<E5(18860)>>, term2Const |-> R(1), term2Cos |-> <<E5(18860)>>]]

\* The switch of GetFactors: the names with a hand-coded formula.
closedFormNames == {"M2", "S2", "N2", "K2", "K1", "O1", "P1", "Q1"}

\* getM2Factors ... getQ1Factors: f is 1.0 in all of them.  sin(2x) is taken
\* as 2 sin(x) cos(x); the arc tangent of getK2Factors is exact on the axes
\* only.
closedFormU(constituent, args) ==
    IF constituent \in {"M2", "N2"}
    THEN RMul(Rat(-21, 10), RMul(args.sinI, args.sinI))
    ELSE IF constituent = "K2"
    THEN Atan2Deg(RMul(Rat(1689, 10000), RMul(R(2), RMul(args.sinI, args.cosI))),
                  RAdd(Rat(2523, 10000), RMul(Rat(1689, 10000), args.cosI)))
    ELSE IF constituent = "K1"
    THEN RAdd(RMul(Rat(-886, 100), args.sinNu),
              RMul(Rat(68, 100), RMul(R(2), RMul(args.sinNu, args.cosNu))))
    ELSE IF constituent \in {"O1", "Q1"}
    THEN RSub(RMul(Rat(108, 10), args.sinNu),
              RMul(Rat(13, 10), RMul(R(2), RMul(args.sinNu, args.cosNu))))
    ELSE R(0)

\* Mutant of externalNonlinear: a factor of exactly 0 is returned as it is.
externalNonlinear_KeepsZero(nl) ==
    [rule |-> "external nonlinear", f |-> nl.f, u |-> nl.u]

\* What GetFactors returns for the values nf, nu of an external nonlinear form.
externalNonlinear(nl) ==
    [rule |-> "external nonlinear", f |-> IF nl.f = R(0) THEN R(1) ELSE nl.f, u |-> nl.u]

\* What GetFactors returns for f = c.EvalF(N), u = c.EvalU(N).
externalSeries(f, u) ==
    [rule |-> "external series", f |-> IF f = R(0) THEN R(1) ELSE f, u |-> u]

\* The built-in branch of GetFactors for the coefficients coeff.
builtInFactors(coeff, Ndeg) ==
    [rule |-> "built-in nonlinear",
     f |-> PolarOf(SeriesFrom(R(0), <<>>, coeff.term1Sin, Ndeg, 1),
                   SeriesFrom(coeff.term2Const, coeff.term2Cos, <<>>, Ndeg, 1)).f,
     u |-> PolarOf(SeriesFrom(R(0), <<>>, coeff.term1Sin, Ndeg, 1),
                   SeriesFrom(coeff.term2Const, coeff.term2Cos, <<>>, Ndeg, 1)).u]

\* AstronomicalNodalCorrection.GetFactors from args on: [rule, f, u], rule
\* naming the return statement taken.  coeffs is n.coeffs (NULL is nil).
GetFactors(coeffs, constituent, args) ==
    IF coeffs # NULL /\ constituent \in DOMAIN coeffs.ByName
    THEN IF EvalNonlinear(coeffs.ByName[constituent], args.N).ok
         THEN externalNonlinear(EvalNonlinear(coeffs.ByName[constituent], args.N))
         ELSE externalSeries(EvalF(coeffs.ByName[constituent], args.N),
                             EvalU(coeffs.ByName[constituent], args.N))
    ELSE IF constituent \in DOMAIN builtInNonlinearCoeffs
    THEN builtInFactors(builtInNonlinearCoeffs[constituent], args.N)
    ELSE IF constituent \in closedFormNames
    THEN [rule |-> "closed form", f |-> R(1), u |-> closedFormU(constituent, args)]
    ELSE [rule |-> "identity", f |-> R(1), u |-> R(0)]

(***************************************************************************)
(* Specification SpecNodal: GetFactors called again and again on one       *)
(* correction, for the constituents the stores can deliver and a name      *)
(* outside every table.                                                    *)
(***************************************************************************)
\* Entries of an external coefficient file.
SeriesCoeff(f0, fCos, u0) ==
    [F0 |-> f0, U0 |-> u0, FCos |-> fCos, FSin |-> <<Rat(1, 4)>>, UCos |-> <<R(1)>>,
     USin |-> <<>>, Nonlinear |-> NULL]
NonlinearCoeff(const, cosC) ==
    [F0 |-> R(7), U0 |-> R(7), FCos |-> <<>>, FSin |-> <<>>, UCos |-> <<>>, USin |-> <<>>,
     Nonlinear |-> [Term1Sin |-> <<Rat(1, 2)>>, Term2Const |-> const, Term2Cos |-> cosC]]

\* The entries a file may hold for M2, K1 and M4; the first of each is "no entry".
M2Entries == <<NULL, SeriesCoeff(R(0), <<>>, R(5)), SeriesCoeff(R(1), <<Rat(1, 10)>>, R(0))>>
K1Entries == <<NULL, NonlinearCoeff(R(0), <<>>), NonlinearCoeff(R(1), <<R(-2)>>)>>
M4Entries == <<NULL, SeriesCoeff(R(1), <<R(1)>>, R(3))>>

CoeffSetOf(m2, k1, m4) ==
    [ByName |-> [n \in ({"M2"} \cap (IF m2 = NULL THEN {} ELSE {"M2"}))
                       \cup ({"K1"} \cap (IF k1 = NULL THEN {} ELSE {"K1"}))
                       \cup ({"M4"} \cap (IF m4 = NULL THEN {} ELSE {"M4"}))
                 |-> IF n = "M2" THEN m2 ELSE IF n = "K1" THEN k1 ELSE m4]]

\* The arguments at the node angles 0 and 180: nu is 0 there; sin I and cos I
\* are rational points of the unit circle next to the values of I.
NodeArgs ==
    {[N |-> 0, sinI |-> Rat(8, 17), cosI |-> Rat(15, 17), sinNu |-> R(0), cosNu |-> R(1)],
     [N |-> 180, sinI |-> Rat(5, 13), cosI |-> Rat(12, 13), sinNu |-> R(0), cosNu |-> R(1)]}

NodalNames == {"M2", "S2", "K1", "Q1", "M4", "MS4", "XX"}

InitNodal ==
    /\ \E hasFile \in BOOLEAN, i \in 1..Len(M2Entries), j \in 1..Len(K1Entries),
          k \in 1..Len(M4Entries), args \in NodeArgs :
          nodIn = [coeffs |-> IF hasFile THEN CoeffSetOf(M2Entries[i], K1Entries[j], M4Entries[k])
                              ELSE NULL,
                   args |-> args]
    /\ nodOut = NULL
    /\ EarlyIdle /\ OvIdle /\ CellIdle /\ DatumIdle /\ RdIdle

factorsReturned(constituent, r) ==
    /\ nodOut' = [constituent |-> constituent, rule |-> r.rule, f |-> r.f, u |-> r.u]
    /\ UNCHANGED <<nodIn, earlyVars, ovVars, cellVars, datumVars, rdVars>>

GetFactorsAct ==
    \E constituent \in NodalNames :
        factorsReturned(constituent, GetFactors(nodIn.coeffs, constituent, nodIn.args))

NextNodal == GetFactorsAct
SpecNodal == InitNodal /\ [][NextNodal]_vars

(***************************************************************************)
(* Claims about the nodal factors (checked under SpecNodal)                *)
(***************************************************************************)
HasExternal(in, name) == in.coeffs # NULL /\ name \in DOMAIN in.coeffs.ByName

\* The source the precedence external > built-in > closed form > identity
\* selects for a constituent.
SourceByPrecedence(in, name) ==
    IF HasExternal(in, name)
    THEN (IF in.coeffs.ByName[name].Nonlinear # NULL THEN "external nonlinear"
          ELSE "external series")
    ELSE IF name \in DOMAIN builtInNonlinearCoeffs THEN "built-in nonlinear"
    ELSE IF name \in closedFormNames THEN "closed form"
    ELSE "identity"

\* The factor an external entry evaluates to, before any replacement of 0.
RawExternalF(c, N) ==
    IF c.Nonlinear # NULL
    THEN Hypot(SeriesFrom(c.Nonlinear.Term2Const, c.Nonlinear.Term2Cos, <<>>, N, 1),
               SeriesFrom(R(0), <<>>, c.Nonlinear.Term1Sin, N, 1))
    ELSE SeriesFrom(c.F0, c.FCos, c.FSin, N, 1)

FactorsFollowPrecedence(in, out) ==
    /\ out.rule = SourceByPrecedence(in, out.constituent)
    /\ out.rule = "identity" => out.f = R(1) /\ out.u = R(0)
    /\ (~HasExternal(in, out.constituent)
        /\ out.constituent \notin DOMAIN builtInNonlinearCoeffs
        /\ out.constituent \notin closedFormNames) => out.f = R(1) /\ out.u = R(0)
    /\ HasExternal(in, out.constituent) =>
          out.f = IF RawExternalF(in.coeffs.ByName[out.constituent], in.args.N) = R(0)
                  THEN R(1)
                  ELSE RawExternalF(in.coeffs.ByName[out.constituent], in.args.N)

\* C24: GetFactors takes the first applicable of external coefficients,
\* built-in nonlinear coefficients, closed-form formula and identity; a
\* constituent in none of the first three gets f = 1, u = 0; an external
\* factor of exactly 0 is returned as 1.
C24_FactorsByPrecedence == nodOut # NULL => FactorsFollowPrecedence(nodIn, nodOut)

\* An external nonlinear entry for K1, which also has built-in coefficients,
\* evaluated to exactly 0 and was returned as 1.
C24_Witness ==
    /\ nodOut # NULL
    /\ nodOut.constituent = "K1"
    /\ nodOut.rule = "external nonlinear"
    /\ RawExternalF(nodIn.coeffs.ByName["K1"], nodIn.args.N) = R(0)
    /\ nodOut.f = R(1)

(***************************************************************************)
(* The time the nodal factors are evaluated at (checked under SpecExec)    *)
(***************************************************************************)
\* The second argument of params.NodalCorrection.GetFactors in
\* CalculateTideHeight: deltaHours := t.Sub(params.ReferenceTime).Hours().
nodalHours(t, params) == Hours(t - params.ReferenceTime)

\* calculateAstronomicalArguments: daysFromJ2000 := t/24 - 10957.5, t being
\* taken as hours since the Unix epoch.  N, p, ps, I, nu and xi are functions
\* of this number alone.
daysFromJ2000(tHours) == RSub(RDiv(tHours, R(24)), Rat(21915, 2))

\* Days from 2000-01-01 12:00 UTC to the calendar instant t.
CalendarDaysFromJ2000(t) == daysFromJ2000(Hours(t - UnixEpoch))

\* C25: for every prediction instant t, the astronomical arguments behind the
\* nodal factors are those of the calendar instant t, whichever reference
\* epoch Execute selected for the phase term.
C25_NodalArgumentsAtCalendarTime ==
    (ExecSucceeded /\ execOut.params.Constituents # <<>>) =>
        \A t \in execReq.Start..execReq.End :
            daysFromJ2000(nodalHours(t, execOut.params)) = CalendarDaysFromJ2000(t)

(***************************************************************************)
(* internal/usecase: station overrides (getStationOverride,                *)
(* applyStationOverride, wrapPhase)                                        *)
(*                                                                         *)
(* An entry of overridesTable carries dist, the value haversineKm gives    *)
(* for the query point and the entry's position.                           *)
(***************************************************************************)
\* The loop of getStationOverride: best is the index of the entry kept so
\* far (0 while best == nil, bestDist == MaxFloat64).
RECURSIVE nearestLoop(_, _, _)
nearestLoop(table, i, best) ==
    IF i > Len(table) THEN best
    ELSE IF /\ table[i].dist <= (IF table[i].RadiusKm = 0 THEN 40 ELSE table[i].RadiusKm)
            /\ (best = 0 \/ table[i].dist < table[best].dist)
         THEN nearestLoop(table, i + 1, i)
         ELSE nearestLoop(table, i + 1, best)

\* getStationOverride: the entry, or NULL for (nil, false).
getStationOverride(table) ==
    IF Len(table) = 0 \/ nearestLoop(table, 1, 0) = 0 THEN NULL
    ELSE table[nearestLoop(table, 1, 0)]

RECURSIVE wrapPhase(_)
wrapPhase(deg) ==
    IF RLess(deg, R(0)) THEN wrapPhase(RAdd(deg, R(360)))
    ELSE IF ~RLess(deg, R(360)) THEN wrapPhase(RSub(deg, R(360)))
    ELSE deg

\* index[c.Name] = i over the copied list: the last position of each name.
indexOf(adjusted) ==
    [n \in {adjusted[i].Name : i \in 1..Len(adjusted)} |->
        CHOOSE i \in 1..Len(adjusted) :
            /\ adjusted[i].Name = n
            /\ \A j \in (i + 1)..Len(adjusted) : adjusted[j].Name # n]

overridden(c, ov) == [c EXCEPT !.AmplitudeM = ov.AmplitudeM, !.PhaseDeg = wrapPhase(ov.PhaseDeg)]

injected(ov) ==
    [Name |-> ov.Name, AmplitudeM |-> ov.AmplitudeM, PhaseDeg |-> wrapPhase(ov.PhaseDeg),
     SpeedDegPerHr |-> GetConstituentSpeed(ov.Name).speed]

\* for _, ov := range override.Constituents { ... }; index is not updated
\* when a constituent is appended.
RECURSIVE overrideLoop(_, _, _, _)
overrideLoop(ovs, k, adjusted, index) ==
    IF k > Len(ovs) THEN adjusted
    ELSE IF ovs[k].Name \in DOMAIN index
    THEN overrideLoop(ovs, k + 1,
                      [adjusted EXCEPT ![index[ovs[k].Name]] = overridden(@, ovs[k])], index)
    ELSE IF ~GetConstituentSpeed(ovs[k].Name).ok
    THEN overrideLoop(ovs, k + 1, adjusted, index)
    ELSE overrideLoop(ovs, k + 1, Append(adjusted, injected(ovs[k])), index)

\* *msl += *override.DatumOffset when both pointers are set.
mslAfter(override, msl) ==
    IF override.DatumOffset # NULL /\ msl # NULL
    THEN Some(RAdd(Val(msl), Val(override.DatumOffset)))
    ELSE msl

\* applyStationOverride from the entry on: [adjusted, caller, msl], caller
\* being what the caller's slice holds afterwards.  All writes go to the copy
\* made by make and copy.
applyOverride(override, constituents, msl) ==
    IF override = NULL
    THEN [adjusted |-> constituents, caller |-> constituents, msl |-> msl]
    ELSE [adjusted |-> overrideLoop(override.Constituents, 1, constituents, indexOf(constituents)),
          caller   |-> constituents,
          msl      |-> mslAfter(override, msl)]

applyStationOverride(table, constituents, msl) ==
    applyOverride(getStationOverride(table), constituents, msl)

(***************************************************************************)
(* Specification SpecOverride: one applyStationOverride call on a table of *)
(* up to two entries.                                                      *)
(***************************************************************************)
OvParam(name, amp, phase) ==
    [Name |-> name, AmplitudeM |-> R(amp), PhaseDeg |-> R(phase),
     SpeedDegPerHr |-> GetConstituentSpeed(name).speed]
BaseLists == {<<>>, <<OvParam("M2", 1, 30)>>, <<OvParam("M2", 1, 30), OvParam("K1", 1, 45)>>}

OvItems ==
    {[Name |-> "M2", AmplitudeM |-> R(2), PhaseDeg |-> R(-90)],
     [Name |-> "M4", AmplitudeM |-> R(3), PhaseDeg |-> R(400)],
     [Name |-> "M4", AmplitudeM |-> R(4), PhaseDeg |-> R(360)],
     [Name |-> "ZZ", AmplitudeM |-> R(5), PhaseDeg |-> R(0)]}
MaxOverrides == 2
OvLists == UNION {[1..n -> OvItems] : n \in 0..MaxOverrides}

OvEntry(radius, dist, offset, items) ==
    [RadiusKm |-> radius, dist |-> dist, DatumOffset |-> offset, Constituents |-> items]
\* An entry whose own radius excludes the query, and one nearer than any other.
FarEntry  == OvEntry(20, 30, Some(R(9)), <<[Name |-> "K1", AmplitudeM |-> R(9), PhaseDeg |-> R(9)]>>)
NearEntry == OvEntry(0, 5, NULL, <<[Name |-> "K1", AmplitudeM |-> R(7), PhaseDeg |-> R(-1)]>>)

InitOverride ==
    /\ \E items \in OvLists, dist \in {10, 50}, offset \in {NULL, Some(Rat(1, 2))},
          shape \in 0..3, base \in BaseLists, msl \in {NULL, Some(R(1))} :
          ovIn = [table |-> CASE shape = 0 -> <<>>
                              [] shape = 1 -> <<OvEntry(0, dist, offset, items)>>
                              [] shape = 2 -> <<FarEntry, OvEntry(0, dist, offset, items)>>
                              [] shape = 3 -> <<OvEntry(0, dist, offset, items), NearEntry>>,
                  constituents |-> base,
                  msl |-> msl]
    /\ ovOut = NULL
    /\ EarlyIdle /\ NodIdle /\ CellIdle /\ DatumIdle /\ RdIdle

ApplyStationOverrideAct ==
    /\ ovOut = NULL
    /\ ovOut' = applyStationOverride(ovIn.table, ovIn.constituents, ovIn.msl)
    /\ UNCHANGED <<ovIn, earlyVars, nodVars, cellVars, datumVars, rdVars>>

NextOverride == ApplyStationOverrideAct
SpecOverride == InitOverride /\ [][NextOverride]_vars

(***************************************************************************)
(* Claims about station overrides (checked under SpecOverride)             *)
(***************************************************************************)
Positions(list, name) == {i \in 1..Len(list) : list[i].Name = name}

InPhaseRange(deg) == RLeq(R(0), deg) /\ RLess(deg, R(360))
SameAngle(a, b) == RMod(RSub(a, b), 360) = R(0)

\* The constituent at adjusted[i] carries the amplitude and the wrapped phase
\* of an item of the override with its name.
CarriesOverride(c, items) ==
    \E k \in 1..Len(items) :
        /\ items[k].Name = c.Name
        /\ c.AmplitudeM = items[k].AmplitudeM
        /\ InPhaseRange(c.PhaseDeg)
        /\ SameAngle(c.PhaseDeg, items[k].PhaseDeg)

OverrideApplied(in, out, override) ==
    /\ out.caller = in.constituents
    /\ \A k \in 1..Len(override.Constituents) :
          GetConstituentSpeed(override.Constituents[k].Name).ok =>
              /\ Cardinality(Positions(out.adjusted, override.Constituents[k].Name)) = 1
              /\ \A i \in Positions(out.adjusted, override.Constituents[k].Name) :
                    CarriesOverride(out.adjusted[i], override.Constituents)
    /\ \A i \in 1..Len(in.constituents) :
          Positions(override.Constituents, in.constituents[i].Name) = {} =>
              /\ i <= Len(out.adjusted)
              /\ out.adjusted[i] = in.constituents[i]
    /\ out.msl = IF override.DatumOffset # NULL /\ in.msl # NULL
                 THEN Some(RAdd(Val(in.msl), Val(override.DatumOffset)))
                 ELSE in.msl

\* C26: applyStationOverride leaves the caller's slice as it was; in the
\* returned list every constituent the matching override names and whose
\* speed is known appears exactly once, with the override amplitude and the
\* override phase wrapped into [0,360); base constituents the override does
\* not name are unchanged; the datum offset, if present, is added to the mean
\* sea level once.
C26_OverrideApplied ==
    (ovOut # NULL /\ getStationOverride(ovIn.table) # NULL) =>
        OverrideApplied(ovIn, ovOut, getStationOverride(ovIn.table))

(***************************************************************************)
(* Specification SpecCell: one point query answered twice, by the FES      *)
(* store's cell search, 2x2 read and bilinearInterpolate, and by           *)
(* Grid2D.InterpolateAt on the whole grid.                                 *)
(***************************************************************************)
\* The point read of interpolatePointFromNetCDF for one data variable:
\* [err, value].
windowRead(in, latIdx, lonIdx) ==
    IF latIdx = -1 \/ lonIdx = -1 THEN ItpFailure("point outside grid bounds")
    ELSE [err   |-> NoErr,
          value |-> bilinearInterpolate(
                        SubSeq(in.lats, latIdx + 1, latIdx + 2),
                        SubSeq(in.lons, lonIdx + 1, lonIdx + 2),
                        readSubset2x2(in.values, Len(in.lats), Len(in.lons), latIdx, lonIdx).values,
                        in.lat, in.lon)]

\* The same data as a Grid2D: X is the longitude axis, Y the latitude axis.
AsGrid2D(in) == [X |-> in.lons, Y |-> in.lats, Values |-> in.values]

CellAxes == {<<0, 2>>, <<0, 2, 3>>, <<1, 2, 4, 5>>, <<0, 1, 2, 4, 5>>}
MaxCellVal == 3     \* node values range over 0..MaxCellVal
\* Node values of the grid with the given axes, fixed by a seed.
CellValues(nLat, nLon, seed) ==
    [i \in 1..nLat |-> [j \in 1..nLon |-> R((seed * i * j + i + 2 * j) % (MaxCellVal + 1))]]
\* Query coordinates: the nodes, the midpoints between them, and outside.
CellCoords == {Rat(k, 2) : k \in -1..11}

InitCell ==
    /\ \E lats \in CellAxes, lons \in CellAxes, seed \in 1..2, lat \in CellCoords,
          lon \in CellCoords :
          cellIn = [lats |-> ToRats(lats), lons |-> ToRats(lons),
                    values |-> CellValues(Len(lats), Len(lons), seed),
                    lat |-> lat, lon |-> lon]
    /\ cellOut = NULL
    /\ EarlyIdle /\ NodIdle /\ OvIdle /\ DatumIdle /\ RdIdle

cellAnswered(latIdx, lonIdx) ==
    /\ cellOut' = [latIdx |-> latIdx, lonIdx |-> lonIdx,
                   windowed |-> windowRead(cellIn, latIdx, lonIdx),
                   full |-> InterpolateAt(AsGrid2D(cellIn), cellIn.lon, cellIn.lat)]
    /\ UNCHANGED <<cellIn, earlyVars, nodVars, ovVars, datumVars, rdVars>>

InterpolatePointAct ==
    /\ cellOut = NULL
    /\ cellAnswered(findGridCell(cellIn.lats, cellIn.lat), findGridCell(cellIn.lons, cellIn.lon))

NextCell == InterpolatePointAct
SpecCell == InitCell /\ [][NextCell]_vars

(***************************************************************************)
(* Claims about the windowed point read (checked under SpecCell)           *)
(***************************************************************************)
OnAxis(coords, val) == RLeq(coords[1], val) /\ RLeq(val, coords[Len(coords)])

\* idx is -1 exactly when val is outside the axis, and otherwise the lower
\* index of a cell that holds val.
IsCellOf(coords, val, idx) ==
    /\ idx = -1 <=> ~OnAxis(coords, val)
    /\ idx # -1 =>
          /\ idx \in 0..(Len(coords) - 2)
          /\ RLeq(coords[idx + 1], val)
          /\ RLeq(val, coords[idx + 2])

WindowedMatchesFull(in, out) ==
    /\ IsCellOf(in.lats, in.lat, out.latIdx)
    /\ IsCellOf(in.lons, in.lon, out.lonIdx)
    /\ (OnAxis(in.lats, in.lat) /\ OnAxis(in.lons, in.lon)) =>
          /\ out.windowed.err = NoErr
          /\ out.full.err = NoErr
          /\ out.windowed.value = out.full.value

PriorityList ==
    <<"M2", "S2", "N2", "K2", "K1", "O1", "P1", "Q1", "M4", "MS4", "MN4", "S4">>

\* The constituent is available in the data set and can be interpolated at
\* the query point.
Interpolates(c) ==
    /\ c \in GetAvailableConstituents(fesDir)
    /\ interpolateConstituentAtPoint(fesDir, c, fesQuery.lat, fesQuery.lon).err = NoErr

NamesOf(params) == [k \in 1..Len(params) |-> params[k].Name]

ReturnsTheInterpolated ==
    FesDone =>
        /\ fesOut.err # NoErr <=> SelectSeq(PriorityList, Interpolates) = <<>>
        /\ fesOut.err = NoErr =>
              /\ NamesOf(fesOut.params) = SelectSeq(PriorityList, Interpolates)
              /\ \A j, k \in 1..Len(fesOut.params) :
                    j # k => fesOut.params[j].Name # fesOut.params[k].Name

CacheUntouched == fesCache' = fesCache

NumDatumCallers == 2
DatumCallers == 1..NumDatumCallers

\* The loop over the table: best is the index of the nearest entry so far
\* (0 while bestDist is still MaxFloat64); entry.dist is haversineKm for the
\* query.  The offset counts when the nearest entry lies within 80 km.
RECURSIVE nearestOffset(_, _, _)
nearestOffset(table, i, best) ==
    IF i > Len(table)
    THEN (IF best # 0 /\ table[best].dist <= 80
          THEN [offset |-> table[best].OffsetM, ok |-> TRUE]
          ELSE [offset |-> R(0), ok |-> FALSE])
    ELSE IF best = 0 \/ table[i].dist < table[best].dist
    THEN nearestOffset(table, i + 1, i)
    ELSE nearestOffset(table, i + 1, best)

\* The part of getAutoDatumOffset after the load, for the table it sees.
offsetFrom(table) ==
    IF Len(table) = 0 THEN [offset |-> R(0), ok |-> FALSE]
    ELSE nearestOffset(table, 1, 0)

DatumFiles ==
    {NULL,
     <<[dist |-> 100, OffsetM |-> R(1)]>>,
     <<[dist |-> 60, OffsetM |-> R(1)], [dist |-> 20, OffsetM |-> Rat(-1, 2)]>>}

InitDatum ==
    /\ \E guard \in {"flag", "once"}, file \in DatumFiles :
          datumImpl = [guard |-> guard, file |-> file]
    /\ datumOnce = "new"
    /\ datumOffsetsLoaded = FALSE
    /\ datumOffsetTable = NULL
    /\ datumCalls = [p \in DatumCallers |-> [pc |-> "idle", out |-> NULL]]
    /\ datumLog = [inits |-> 0, rewritten |-> FALSE, torn |-> FALSE]
    /\ EarlyIdle /\ NodIdle /\ OvIdle /\ CellIdle /\ RdIdle

DatumOthers == <<earlyVars, nodVars, ovVars, cellVars, rdVars>>

datumGoto(p, pc) == datumCalls' = [datumCalls EXCEPT ![p].pc = pc]

\* Another goroutine is in the middle of the assignment to the table.
BeingWritten(p) == \E q \in DatumCallers : q # p /\ datumCalls[q].pc = "assigning"

\* if !datumOffsetsLoaded { ... }
CheckLoaded(p) ==
    /\ datumImpl.guard = "flag"
    /\ datumCalls[p].pc = "idle"
    /\ datumGoto(p, IF datumOffsetsLoaded THEN "lookup" ELSE "readFile")
    /\ UNCHANGED <<datumImpl, datumOnce, datumOffsetsLoaded, datumOffsetTable, datumLog,
                   DatumOthers>>

\* datumOnce.Do(func): the first caller runs the function, a caller that
\* arrives while it runs waits, a later caller passes.
OnceDo(p) ==
    /\ datumImpl.guard = "once"
    /\ datumCalls[p].pc = "idle"
    /\ datumOnce # "running"
    /\ datumGoto(p, IF datumOnce = "new" THEN "readFile" ELSE "lookup")
    /\ datumOnce' = IF datumOnce = "new" THEN "running" ELSE datumOnce
    /\ UNCHANGED <<datumImpl, datumOffsetsLoaded, datumOffsetTable, datumLog, DatumOthers>>

\* os.ReadFile and json.Unmarshal into a local slice.
ReadFile(p) ==
    /\ datumCalls[p].pc = "readFile"
    /\ datumGoto(p, IF datumImpl.file # NULL THEN "assign" ELSE "loaded")
    /\ UNCHANGED <<datumImpl, datumOnce, datumOffsetsLoaded, datumOffsetTable, datumLog,
                   DatumOthers>>

\* datumOffsetTable = arr begins.
AssignBegin(p) ==
    /\ datumCalls[p].pc = "assign"
    /\ datumGoto(p, "assigning")
    /\ UNCHANGED <<datumImpl, datumOnce, datumOffsetsLoaded, datumOffsetTable, datumLog,
                   DatumOthers>>

\* datumOffsetTable = arr is complete.
AssignEnd(p) ==
    /\ datumCalls[p].pc = "assigning"
    /\ datumOffsetTable' = datumImpl.file
    /\ datumLog' = [datumLog EXCEPT !.inits = @ + 1, !.rewritten = @ \/ datumLog.inits > 0]
    /\ datumGoto(p, "loaded")
    /\ UNCHANGED <<datumImpl, datumOnce, datumOffsetsLoaded, DatumOthers>>

\* datumOffsetsLoaded = true, or the return of datumOnce.Do's function.
MarkLoaded(p) ==
    /\ datumCalls[p].pc = "loaded"
    /\ datumOffsetsLoaded' = (datumOffsetsLoaded \/ datumImpl.guard = "flag")
    /\ datumOnce' = IF datumImpl.guard = "once" THEN "done" ELSE datumOnce
    /\ datumGoto(p, "lookup")
    /\ UNCHANGED <<datumImpl, datumOffsetTable, datumLog, DatumOthers>>

datumReturned(p, seen, torn) ==
    /\ datumCalls' = [datumCalls EXCEPT ![p] = [pc |-> "done", out |-> offsetFrom(seen)]]
    /\ datumLog' = [datumLog EXCEPT !.torn = @ \/ torn]
    /\ UNCHANGED <<datumImpl, datumOnce, datumOffsetsLoaded, datumOffsetTable, DatumOthers>>

\* len(datumOffsetTable) == 0 and the loop: the read of the table.  A read
\* that overlaps another goroutine's assignment may see the old or the new
\* slice.
Lookup(p) ==
    /\ datumCalls[p].pc = "lookup"
    /\ \E seen \in {datumOffsetTable} \cup (IF BeingWritten(p) THEN {datumImpl.file} ELSE {}) :
          datumReturned(p, seen, BeingWritten(p))

NextDatum ==
    \E p \in DatumCallers :
        \/ CheckLoaded(p)
        \/ OnceDo(p)
        \/ ReadFile(p)
        \/ AssignBegin(p)
        \/ AssignEnd(p)
        \/ MarkLoaded(p)
        \/ Lookup(p)

SpecDatum == InitDatum /\ [][NextDatum]_vars

(***************************************************************************)
(* Claims about the datum-offset table (checked under SpecDatum)           *)
(***************************************************************************)
\* C29: under any interleaving of concurrent Execute calls the datum-offset
\* table is initialised at most once, is never modified after that, and is
\* never read by one request while another is writing it.
C29_TableInitialisedOnce ==
    /\ datumLog.inits <= 1
    /\ ~datumLog.rewritten
    /\ ~datumLog.torn

(***************************************************************************)
(* Specification SpecRound: roundToDecimal applied to heights between      *)
(* -MaxRound and MaxRound ten-thousandths of a metre.                      *)
(***************************************************************************)
MaxRound == 60

InitRound ==
    /\ \E k \in (-MaxRound)..MaxRound : rdIn = Rat(k, 10000)
    /\ rdOut = NULL
    /\ EarlyIdle /\ NodIdle /\ OvIdle /\ CellIdle /\ DatumIdle

RoundToDecimalAct ==
    /\ rdOut = NULL
    /\ rdOut' = roundToDecimal(rdIn)
    /\ UNCHANGED <<rdIn, earlyVars, nodVars, ovVars, cellVars, datumVars>>

NextRound == RoundToDecimalAct
SpecRound == InitRound /\ [][NextRound]_vars

(***************************************************************************)
(* Claims about roundToDecimal (checked under SpecRound)                   *)
(***************************************************************************)
IsThousandth(v) == RMul(v, R(1000))[2] = 1

\* C30: roundToDecimal gives the multiple of 0.001 nearest to its input, for
\* negative inputs as for positive ones: the result differs from the input
\* by at most 0.0005.
C30_RoundsToNearest ==
    rdOut # NULL =>
        /\ IsThousandth(rdOut)
        /\ RLeq(RAbs(RSub(rdOut, rdIn)), Rat(1, 2000))

====
